---- MODULE Spec2Model ----
(***************************************************************************)
(* Yandex web-link calculator of mcp-email-server: the link calculator     *)
(* (YandexLinkCalculator.get_web_url), its sync pass (_sync_messages,      *)
(* Strategy A: global chronological ranking) and the part of the SQLite    *)
(* store the pass reads and writes (message_index, sync_state).            *)
(*                                                                         *)
(* The calculator addresses the store as get_web_id / get_max_web_id and   *)
(* passes rows whose id field is "web_id"; cache.py implements the same    *)
(* point lookup and checkpoint read as get_mid / get_max_mid over the      *)
(* column "mid".  The model keeps the calculator's names and takes the     *)
(* behaviour from the cache.py statements.                                 *)
(*                                                                         *)
(* Time is abstract: an internal date is a local clock reading (loc, in    *)
(* slots) together with a UTC offset (off, in slots).  SlotsPerDay slots   *)
(* make one calendar day.                                                  *)
(*                                                                         *)
(* Three further parts share the variables: SpecConcurrent lets calls on   *)
(* one calculator overlap, SpecStore runs the store functions of cache.py  *)
(* on their own for two accounts, and SpecCodec runs the folder-name codec *)
(* (encode_imap_utf7, decode_imap_utf7) on names given as sequences of     *)
(* code points.                                                            *)
(*                                                                         *)
(* The other components of the server are run on their own, each from a    *)
(* state in which the rest is idle: SpecMatch (match_imap_to_web),         *)
(* SpecReconcile (YandexWebAPI.sync_mids_to_cache), SpecContent            *)
(* (get_emails_content with the body and metadata caches), SpecMeta        *)
(* (get_emails_metadata with the folder watermark), SpecUrl (_format_url), *)
(* SpecSend (send_email) and SpecSearch (_build_search_criteria).          *)
(* SpecManager and SpecShared run IMAPConnectionManager with one caller    *)
(* and with two, SpecListing lets two get_emails_metadata calls overlap,   *)
(* and SpecCache runs delete_emails and clear_account_cache over the six   *)
(* tables of the cache.                                                    *)
(***************************************************************************)
EXTENDS Integers, Sequences, FiniteSets, TLC

\* ---------------------------------------------------------------- bounds
MaxTime == 2
SlotsPerDay == 2
MaxMsgs == 3
MaxSessions == 2
MaxOverlapMsgs == 2

\* ------------------------------------------------------- fixed small sets
Callers == {1, 2}
Accounts == {"A", "B"}
Offsets == {0, 1}

\* The folders of the account as LIST names them (wire names): "INBOX", and
\* "&BBY-", the wire name of the folder whose name is the one letter U+0416.
INBOX == <<73, 78, 66, 79, 88>>
WireFolder == <<38, 66, 66, 89, 45>>
DecodedFolder == <<1046>>
FolderList == <<INBOX, WireFolder>>
Folders == {FolderList[i] : i \in 1..Len(FolderList)}
Times == 0..MaxTime
Dates == [loc : Times, off : Offsets]

\* ------------------------------------------- baseline (YandexLinkConfig)
BaselineFolder == INBOX
BaselineUid == 100
BaselineWebId == 5000
BaselineDate == [loc |-> 1, off |-> 0]
BaselineKey == <<BaselineFolder, BaselineUid>>

\* email_settings.account_name of the calculator's account
account == "A"

\* The (folder, uid) pairs get_web_url is asked for: the baseline message and
\* the first message of the other folder (on the server or not, synced or
\* not), the folder named by its wire name or by its decoded name.
Requests == {BaselineKey, <<WireFolder, 1>>, <<DecodedFolder, 1>>}

VARIABLES
    mailbox,        \* server side: set of [folder (wire name), uid, internal_date]
    uidnext,        \* server side: next UID of each folder
    message_index,  \* store: rows [account, folder, uid, internal_date, mid, tid]
    sync_state,     \* store: rows [account, last_sync_date, max_mid]
    synced,         \* calculator: self._synced
    sessions,       \* number of calculator instances created so far
    syncs,          \* _sync_messages invocations of this instance (0, 1, 2 = more)
    pc,             \* per call: "idle", "connect", "list", "fetch"
    req,            \* per call: the (folder, uid) asked for
    since_date,     \* per call: local of _sync_messages
    start_web_id,   \* per call: local of _sync_messages
    folders,        \* per call: folders still to fetch
    all_messages,   \* per call: messages fetched so far, in fetch order
    before,         \* per call: the store when the pass started
    ret,            \* what the step just taken delivered to a caller
    last_pass,      \* the pass the step just taken ended
    last_op,        \* the store operation the step just taken performed
    codec,          \* a folder name under conversion
    matching,       \* a call of match_imap_to_web: its arguments and result
    folder_reference, \* store: rows [account, folder, ref_uid, ref_mid]
    recon,          \* a YandexWebAPI instance and its sync_mids_to_cache call
    email_metadata, \* store: rows [account, folder, uid, subject, flags]
    email_body,     \* store: rows [account, folder, uid, body_text]
    folder_watermark, \* store: rows [account, folder, highest_uid]
    content,        \* a call of get_emails_content: arguments, locals, result
    meta,           \* a call of get_emails_metadata: arguments, locals, result
    call,           \* a call of a function without state: argument and result
    mgr,            \* IMAPConnectionManager: _imap, _connected, _current_folder, _lock
    server,         \* IMAP server: its connections and the mailbox selected on each
    task,           \* per caller: a call of execute_with_retry and its position
    listing         \* per caller: a call of get_emails_metadata and its position

vars == <<mailbox, uidnext, message_index, sync_state, synced,
          sessions, syncs, pc, req, since_date, start_web_id, folders,
          all_messages, before, ret, last_pass, last_op, codec, matching,
          folder_reference, recon, email_metadata, email_body,
          folder_watermark, content, meta, call, mgr, server, task,
          listing>>

\* The variables of the calculator, the store and the codec.
Core == <<mailbox, uidnext, message_index, sync_state, synced,
          sessions, syncs, pc, req, since_date, start_web_id, folders,
          all_messages, before, ret, last_pass, last_op, codec>>

\* The variables of the other components.
Rest == <<matching, folder_reference, recon, email_metadata, email_body,
          folder_watermark, content, meta, call, mgr, server, task,
          listing>>

\* Core without the message index.
CoreButIndex == <<mailbox, uidnext, sync_state, synced, sessions, syncs, pc, req,
                  since_date, start_web_id, folders, all_messages, before, ret,
                  last_pass, last_op, codec>>

\* Rest without the variables of the reconcile call.
RestButRecon == <<matching, email_metadata, email_body, folder_watermark,
                  content, meta, call, mgr, server, task,
          listing>>

\* Rest without the call of match_imap_to_web.
RestButMatching == <<folder_reference, recon, email_metadata, email_body,
                     folder_watermark, content, meta, call, mgr, server, task,
          listing>>

\* Rest without the body and metadata caches and the calls that use them.
RestButCaches == <<matching, folder_reference, recon, call, mgr, server, task,
          listing>>

\* Rest without the call of a function without state.
RestButCall == <<matching, folder_reference, recon, email_metadata, email_body,
                 folder_watermark, content, meta, mgr, server, task, listing>>

\* Rest without the connection manager, its server and its callers.
RestButConn == <<matching, folder_reference, recon, email_metadata, email_body,
                 folder_watermark, content, meta, call, listing>>

\* The members of a sequence.
Range(seq) == {seq[k] : k \in 1..Len(seq)}

\* ------------------------------------------------------------ dates
\* The instant a date denotes.
Instant(d) == d.loc - d.off

\* datetime.isoformat() gives fixed-width text "YYYY-MM-DDTHH:MM:SS+HH:MM":
\* text order compares the local reading first and the offset text after it
\* (offsets here are non-negative, so offset text order is numeric order).
IsoLess(a, b) == a.loc < b.loc \/ (a.loc = b.loc /\ a.off < b.off)

\* since_date.strftime("%d-%b-%Y"): the calendar day of the local reading.
DayOf(d) == d.loc \div SlotsPerDay

\* ------------------------------------------------- folder name codec
\* A name is a sequence of characters, a character is its code point.  The
\* characters are those of the Basic Multilingual Plane that are not
\* surrogates, so one character is one 16-bit unit of UTF-16.
Amp == 38
Dash == 45
Plus == 43
Comma == 44
Slash == 47

\* 0x20 <= ord(c) <= 0x7e
Printable(c) == 32 <= c /\ c <= 126

Chars(s) == {s[k] : k \in 1..Len(s)}

\* str.replace(a, b) for single characters
Replace(s, a, b) == [k \in 1..Len(s) |-> IF s[k] = a THEN b ELSE s[k]]

\* s.find(ch, start), indices from 1; 0 when there is none
Find(s, ch, start) ==
    LET at == {k \in start..Len(s) : s[k] = ch}
    IN  IF at = {} THEN 0 ELSE CHOOSE k \in at : \A j \in at : k <= j

\* The base64 alphabet of the utf-7 codec: A-Z a-z 0-9 + /
ToBase64(i) ==
    IF i < 26 THEN 65 + i
    ELSE IF i < 52 THEN 97 + (i - 26)
    ELSE IF i < 62 THEN 48 + (i - 52)
    ELSE IF i = 62 THEN Plus ELSE Slash

IsBase64(c) ==
    \/ 65 <= c /\ c <= 90
    \/ 97 <= c /\ c <= 122
    \/ 48 <= c /\ c <= 57
    \/ c = Plus
    \/ c = Slash

FromBase64(c) ==
    IF 65 <= c /\ c <= 90 THEN c - 65
    ELSE IF 97 <= c /\ c <= 122 THEN c - 97 + 26
    ELSE IF 48 <= c /\ c <= 57 THEN c - 48 + 52
    ELSE IF c = Plus THEN 62 ELSE 63

\* Of the characters outside 0x20..0x7e the utf-7 encoder writes tab, line
\* feed and carriage return as themselves and every other one in base64.
DirectWhitespace(c) == c \in {9, 10, 13}

\* The sextets of the top bits of buf while at least six bits are pending.
RECURSIVE Sextets(_, _)
Sextets(buf, bits) ==
    IF bits < 6 THEN <<>>
    ELSE <<ToBase64((buf \div 2^(bits - 6)) % 64)>> \o Sextets(buf, bits - 6)

Flush(buf, bits) ==
    IF bits > 0 THEN <<ToBase64((buf * 2^(6 - bits)) % 64)>> ELSE <<>>

\* str.encode("utf-7") of a run of characters outside 0x20..0x7e
RECURSIVE Utf7Encode(_, _, _, _)
Utf7Encode(run, in_shift, buf, bits) ==
    IF run = <<>>
    THEN Flush(buf, bits) \o (IF in_shift THEN <<Dash>> ELSE <<>>)
    ELSE LET ch == Head(run)
         IN  IF DirectWhitespace(ch)
             THEN Flush(buf, bits) \o <<ch>> \o Utf7Encode(Tail(run), FALSE, 0, 0)
             ELSE LET b == buf * 65536 + ch
                      n == bits + 16
                  IN  (IF in_shift THEN <<>> ELSE <<Plus>>) \o Sextets(b, n)
                      \o Utf7Encode(Tail(run), TRUE, b % 2^(n % 6), n % 6)

\* The end of the run that starts at i: the first index from i on whose
\* character is printable, or Len(s) + 1.
RunEnd(s, i) ==
    LET at == {k \in i..Len(s) : Printable(s[k])}
    IN  IF at = {} THEN Len(s) + 1 ELSE CHOOSE k \in at : \A j \in at : k <= j

RECURSIVE EncodeFrom(_, _)
EncodeFrom(s, i) ==
    IF i > Len(s) THEN <<>>
    ELSE IF s[i] = Amp THEN <<Amp, Dash>> \o EncodeFrom(s, i + 1)
    ELSE IF Printable(s[i]) THEN <<s[i]>> \o EncodeFrom(s, i + 1)
    ELSE LET j == RunEnd(s, i)
             utf7_encoded == Utf7Encode(SubSeq(s, i, j - 1), FALSE, 0, 0)
             n == Len(utf7_encoded)
             imap_encoded ==
                 IF utf7_encoded[1] = Plus /\ utf7_encoded[n] = Dash
                 THEN <<Amp>> \o Replace(SubSeq(utf7_encoded, 2, n - 1), Slash, Comma)
                      \o <<Dash>>
                 ELSE LET e == <<Amp>> \o Replace(SubSeq(utf7_encoded, 2, n), Slash, Comma)
                      IN  IF e[Len(e)] = Dash THEN e ELSE e \o <<Dash>>
         IN  imap_encoded \o EncodeFrom(s, j)

encode_imap_utf7(s) ==
    IF (\A c \in Chars(s) : Printable(c)) /\ Amp \notin Chars(s) THEN s
    ELSE EncodeFrom(s, 1)

\* bytes.decode("utf-7") of text from position i on, out being what has been
\* decoded so far: {the decoded characters}, or {} when the decoder raises
\* (a partial character or non-zero padding bits when a base64 section ends,
\* or "+" before a character that is neither base64 nor "-").
RECURSIVE Utf7Decode(_, _, _, _, _, _)
Utf7Decode(text, i, in_shift, buf, bits, out) ==
    IF i > Len(text) THEN {out}
    ELSE LET ch == text[i]
         IN  IF in_shift
             THEN IF IsBase64(ch)
                  THEN LET b == buf * 64 + FromBase64(ch)
                           n == bits + 6
                       IN  IF n >= 16
                           THEN Utf7Decode(text, i + 1, TRUE, b % 2^(n - 16), n - 16,
                                           Append(out, b \div 2^(n - 16)))
                           ELSE Utf7Decode(text, i + 1, TRUE, b, n, out)
                  ELSE IF bits >= 6 \/ (bits > 0 /\ buf # 0) THEN {}
                  ELSE Utf7Decode(text, IF ch = Dash THEN i + 1 ELSE i, FALSE, 0, 0, out)
             ELSE IF ch = Plus
                  THEN IF i + 1 <= Len(text) /\ text[i + 1] = Dash
                       THEN Utf7Decode(text, i + 2, FALSE, 0, 0, Append(out, Plus))
                       ELSE IF i + 1 <= Len(text) /\ ~IsBase64(text[i + 1]) THEN {}
                       ELSE Utf7Decode(text, i + 1, TRUE, 0, 0, out)
                  ELSE Utf7Decode(text, i + 1, FALSE, 0, 0, Append(out, ch))

\* ("+" + encoded + "-").encode("ascii").decode("utf-7")
DecodePayload(encoded) ==
    IF \E c \in Chars(encoded) : c > 127 THEN {}
    ELSE Utf7Decode(<<Plus>> \o encoded \o <<Dash>>, 1, FALSE, 0, 0, <<>>)

RECURSIVE DecodeFrom(_, _)
\* A variant in which a section that cannot be decoded ends the conversion:
\* it is kept, and so is everything after it, unconverted.
DecodeFrom_InvalidEndsConversion(s, i) ==
    IF i > Len(s) THEN <<>>
    ELSE IF s[i] # Amp THEN <<s[i]>> \o DecodeFrom(s, i + 1)
    ELSE IF i + 1 <= Len(s) /\ s[i + 1] = Dash THEN <<Amp>> \o DecodeFrom(s, i + 2)
    ELSE LET j == Find(s, Dash, i + 1)
         IN  IF j = 0 THEN SubSeq(s, i, Len(s))
             ELSE LET decoded == DecodePayload(Replace(SubSeq(s, i + 1, j - 1), Comma, Slash))
                  IN  IF decoded = {} THEN SubSeq(s, i, Len(s))
                      ELSE (CHOOSE d \in decoded : TRUE) \o DecodeFrom(s, j + 1)

DecodeFrom(s, i) ==
    IF i > Len(s) THEN <<>>
    ELSE IF s[i] # Amp THEN <<s[i]>> \o DecodeFrom(s, i + 1)
    ELSE IF i + 1 <= Len(s) /\ s[i + 1] = Dash THEN <<Amp>> \o DecodeFrom(s, i + 2)
    ELSE LET j == Find(s, Dash, i + 1)
         IN  IF j = 0 THEN SubSeq(s, i, Len(s))
             ELSE LET decoded == DecodePayload(Replace(SubSeq(s, i + 1, j - 1), Comma, Slash))
                  IN  (IF decoded = {} THEN SubSeq(s, i, j)
                       ELSE CHOOSE d \in decoded : TRUE)
                      \o DecodeFrom(s, j + 1)

decode_imap_utf7(s) == IF Amp \notin Chars(s) THEN s ELSE DecodeFrom(s, 1)

\* ------------------------------------------------------------ store
KeyOf(m) == <<m.folder, m.uid>>

\* The id of a message handed to the store: the store reads it under "mid",
\* the calculator hands it over under "web_id".
IdOf(m) == IF "mid" \in DOMAIN m THEN m.mid ELSE m.web_id

\* m.get("tid"): the thread id when the message carries one, otherwise NULL.
TidOf(m) == IF "tid" \in DOMAIN m THEN {m.tid} ELSE {}

RowsOf(index, acct, folder, uid) ==
    {x \in index : x.account = acct /\ x.folder = folder /\ x.uid = uid}

\* SELECT mid FROM message_index WHERE account = ? AND folder = ? AND uid = ?
get_mid(index, acct, folder, uid) == {r.mid : r \in RowsOf(index, acct, folder, uid)}

\* The calculator's name for the point lookup.
get_web_id(index, acct, folder, uid) == get_mid(index, acct, folder, uid)

\* Python truth of an optional integer: None and 0 are false.
Truthy(optId) == optId # {} /\ optId # {0}

ValueOf(optId) == CHOOSE v \in optId : TRUE

\* A variant of the pair lookup without the stand-in for a missing thread id.
get_message_ids_NoStandIn(index, acct, folder, uid) ==
    {<<r.mid, IF r.tid # {} THEN ValueOf(r.tid) ELSE 0>> :
        r \in RowsOf(index, acct, folder, uid)}

\* SELECT mid, tid ...: (mid, tid), with mid standing in for a tid that is
\* NULL (or 0); None when there is no row.
get_message_ids(index, acct, folder, uid) ==
    {<<r.mid, IF Truthy(r.tid) THEN ValueOf(r.tid) ELSE r.mid>> :
        r \in RowsOf(index, acct, folder, uid)}

\* A variant of the insert that keeps the row already there (INSERT OR IGNORE).
InsertOrReplace_KeepsOld(index, acct, m) ==
    IF RowsOf(index, acct, m.folder, m.uid) # {} THEN index
    ELSE index \cup
         {[account |-> acct, folder |-> m.folder, uid |-> m.uid,
           internal_date |-> m.internal_date, mid |-> IdOf(m), tid |-> TidOf(m)]}

\* INSERT OR REPLACE of one row on the primary key (account, folder, uid)
InsertOrReplace(index, acct, m) ==
    {r \in index : ~(r.account = acct /\ KeyOf(r) = KeyOf(m))} \cup
    {[account |-> acct, folder |-> m.folder, uid |-> m.uid,
      internal_date |-> m.internal_date, mid |-> IdOf(m), tid |-> TidOf(m)]}

RECURSIVE bulk_insert_messages(_, _, _)
bulk_insert_messages(index, acct, messages) ==
    IF messages = <<>> THEN index
    ELSE bulk_insert_messages(InsertOrReplace(index, acct, Head(messages)),
                              acct, Tail(messages))

get_last_sync_date(state, acct) ==
    {s.last_sync_date : s \in {x \in state : x.account = acct}}

get_max_mid(state, acct) == {s.max_mid : s \in {x \in state : x.account = acct}}

\* The calculator's name for the checkpoint's id.
get_max_web_id(state, acct) == get_max_mid(state, acct)

\* INSERT OR REPLACE INTO sync_state: one row per account
update_sync_state(state, acct, last_date, max_mid) ==
    {s \in state : s.account # acct} \cup
    {[account |-> acct, last_sync_date |-> last_date, max_mid |-> max_mid]}

\* ------------------------------------------------------------ sync pass
\* all_messages.sort(key=lambda m: m["internal_date"]): the key is the ISO
\* text of the date, and the sort is stable.
SortKeyLess(a, b) == IsoLess(a.internal_date, b.internal_date)

RECURSIVE InsertSorted(_, _)
InsertSorted(sorted, m) ==
    IF sorted = <<>> THEN <<m>>
    ELSE IF SortKeyLess(m, Head(sorted)) THEN <<m>> \o sorted
    ELSE <<Head(sorted)>> \o InsertSorted(Tail(sorted), m)

RECURSIVE SortByDate(_)
SortByDate(messages) ==
    IF messages = <<>> THEN <<>>
    ELSE InsertSorted(SortByDate(SubSeq(messages, 1, Len(messages) - 1)),
                      messages[Len(messages)])

SetMin(S) == CHOOSE x \in S : \A y \in S : x <= y

WithWebId(m, id) ==
    [folder |-> m.folder, uid |-> m.uid,
     internal_date |-> m.internal_date, web_id |-> id]

\* Variants of the id assignment, each a plausible slip: ids counted from
\* start_web_id whether or not the baseline is in the batch; and a running
\* counter whose first value is start_web_id itself.
AssignWebIds_IgnoreBaseline(sorted, start) ==
    [i \in 1..Len(sorted) |-> WithWebId(sorted[i], start + i)]

AssignWebIds_CounterFromStart(sorted, start) ==
    LET hits == {i \in 1..Len(sorted) : KeyOf(sorted[i]) = BaselineKey}
    IN  IF hits # {}
        THEN [i \in 1..Len(sorted) |->
                 WithWebId(sorted[i], BaselineWebId + (i - SetMin(hits)))]
        ELSE [i \in 1..Len(sorted) |-> WithWebId(sorted[i], start + i - 1)]

\* Position of the baseline in the sorted list (first match), then either
\* web_id = baseline_web_id + (i - baseline_pos), or the running counter
\* that starts at start_web_id.
AssignWebIds(sorted, start) ==
    LET hits == {i \in 1..Len(sorted) : KeyOf(sorted[i]) = BaselineKey}
    IN  IF hits # {}
        THEN [i \in 1..Len(sorted) |->
                 WithWebId(sorted[i], BaselineWebId + (i - SetMin(hits)))]
        ELSE [i \in 1..Len(sorted) |-> WithWebId(sorted[i], start + i)]

\* UID SEARCH SINCE <day>: the messages of the folder whose internal date,
\* disregarding time and zone, is on or after the day.
Matching(folder, since) ==
    {m \in mailbox : m.folder = folder /\ DayOf(m.internal_date) >= DayOf(since)}

RECURSIVE SeqByUid(_)
SeqByUid(S) ==
    IF S = {} THEN <<>>
    ELSE LET m == CHOOSE x \in S : \A y \in S : x.uid <= y.uid
         IN  <<m>> \o SeqByUid(S \ {m})

\* The dict appended for a message: the folder under its decoded name.
Fetched(m) ==
    [folder |-> decode_imap_utf7(m.folder), uid |-> m.uid,
     internal_date |-> m.internal_date]

\* A variant of _fetch_folder_messages without the inner try: the first UID
\* that fails ends the folder, the messages before it are returned.
_fetch_folder_messages_FirstErrorEndsFolder(folder, since, selectable, failing) ==
    IF ~selectable THEN <<>>
    ELSE LET uids == SeqByUid(Matching(folder, since))
             bad == {k \in 1..Len(uids) : uids[k] \in failing}
             stop == IF bad = {} THEN Len(uids) + 1
                     ELSE CHOOSE k \in bad : \A j \in bad : k <= j
         IN  [k \in 1..(stop - 1) |-> Fetched(uids[k])]

\* _fetch_folder_messages: nothing from a folder that cannot be selected;
\* otherwise the messages the search matches, in UID order, without those
\* whose fetch fails or whose date does not parse (failing).
_fetch_folder_messages(folder, since, selectable, failing) ==
    IF ~selectable THEN <<>>
    ELSE LET uids == SeqByUid(Matching(folder, since) \ failing)
         IN  [k \in 1..Len(uids) |-> Fetched(uids[k])]

\* folder_ids.get(decoded_folder, 1), folder_ids being keyed by decoded names
FolderId(decoded_folder) ==
    IF decoded_folder = INBOX THEN 1
    ELSE IF decoded_folder = DecodedFolder THEN 2
    ELSE 1

\* A variant of _format_url that looks the folder up as it was given.
_format_url_Undecoded(web_id, folder) ==
    [folder_id |-> FolderId(folder), thread |-> web_id]

\* https://{url_prefix}/touch/folder/{folder_id}/thread/{web_id}
_format_url(web_id, folder) ==
    [folder_id |-> FolderId(decode_imap_utf7(folder)), thread |-> web_id]

\* What a call delivers: the URL it returns for the (folder, uid) it was asked
\* for, or the exception that leaves it.
Returned(c, f, u, url) ==
    {[caller |-> c, folder |-> f, uid |-> u, kind |-> "url", url |-> url]}

NoUrl == [folder_id |-> 0, thread |-> 0]

Raised(c, f, u) ==
    {[caller |-> c, folder |-> f, uid |-> u, kind |-> "raised", url |-> NoUrl]}

\* _sync_messages takes the incremental branch only when both checkpoint
\* fields are true values.
FirstSync(state) ==
    ~(get_last_sync_date(state, account) # {} /\ Truthy(get_max_web_id(state, account)))

\* The record of a pass that has just ended: how it ended, what it fetched
\* (in fetch order), the store it started from, and which of its two kinds
\* of write it performed (bulk_insert_messages, update_sync_state).
PassEnded(c, outcome, fetched) ==
    {[caller |-> c, outcome |-> outcome, fetched |-> fetched,
      before |-> before[c],
      wrote_entries |-> (FirstSync(before[c].state) \/ outcome = "committed"),
      wrote_checkpoint |-> (outcome = "committed")]}

NoStore == [index |-> {}, state |-> {}]

\* The locals of a call that is not running.
Forget(c) ==
    /\ pc' = [pc EXCEPT ![c] = "idle"]
    /\ req' = [req EXCEPT ![c] = BaselineKey]
    /\ since_date' = [since_date EXCEPT ![c] = BaselineDate]
    /\ start_web_id' = [start_web_id EXCEPT ![c] = 0]
    /\ folders' = [folders EXCEPT ![c] = <<>>]
    /\ all_messages' = [all_messages EXCEPT ![c] = <<>>]
    /\ before' = [before EXCEPT ![c] = NoStore]

NoCallRunning == \A c \in Callers : pc[c] = "idle"

\* No name is under conversion.
NoName == [stage |-> "none", given |-> <<>>, wire |-> <<>>, back |-> <<>>]

InitCalculator ==
    /\ mailbox = {[folder |-> BaselineFolder, uid |-> BaselineUid,
                   internal_date |-> BaselineDate]}
    /\ uidnext = [f \in Folders |-> IF f = BaselineFolder THEN BaselineUid + 1 ELSE 1]
    /\ message_index = {}
    /\ sync_state = {}
    /\ synced = FALSE
    /\ sessions = 1
    /\ syncs = 0
    /\ pc = [c \in Callers |-> "idle"]
    /\ req = [c \in Callers |-> BaselineKey]
    /\ since_date = [c \in Callers |-> BaselineDate]
    /\ start_web_id = [c \in Callers |-> 0]
    /\ folders = [c \in Callers |-> <<>>]
    /\ all_messages = [c \in Callers |-> <<>>]
    /\ before = [c \in Callers |-> NoStore]
    /\ ret = {}
    /\ last_pass = {}
    /\ last_op = {}

NoMatching == [stage |-> "none", imap_messages |-> <<>>, web_messages |-> <<>>,
               uid_to_ids |-> {}]

NoRecon == [stage |-> "none"]

NoContent == [stage |-> "none"]

NoMeta == [stage |-> "none"]

NoCall == [stage |-> "none"]

NoConn == [stage |-> "none"]

NoListing == [stage |-> "none"]

\* Every component outside S is at rest.
Quiet(S) ==
    /\ IF "codec" \in S THEN TRUE ELSE codec = NoName
    /\ IF "matching" \in S THEN TRUE ELSE matching = NoMatching
    /\ IF "recon" \in S THEN TRUE ELSE recon = NoRecon
    /\ IF S \cap {"recon", "cache"} # {} THEN TRUE ELSE folder_reference = {}
    /\ IF "content" \in S THEN TRUE ELSE content = NoContent
    /\ IF S \cap {"content", "cache"} # {} THEN TRUE ELSE email_body = {}
    /\ IF "meta" \in S THEN TRUE ELSE meta = NoMeta
    /\ IF S \cap {"meta", "listing", "cache"} # {} THEN TRUE ELSE folder_watermark = {}
    /\ IF S \cap {"content", "meta", "listing", "cache"} # {} THEN TRUE
       ELSE email_metadata = {}
    /\ IF "listing" \in S THEN TRUE ELSE listing = NoListing
    /\ IF "call" \in S THEN TRUE ELSE call = NoCall
    /\ IF "conn" \in S THEN TRUE
       ELSE mgr = NoConn /\ server = NoConn /\ task = NoConn

Init ==
    /\ InitCalculator
    /\ Quiet({})

\* A message is delivered (or copied, or moved) into a folder.  Arrivals are
\* taken between calls: a message that arrives while a pass is fetching is
\* either seen by the pass, as if it had arrived before it, or not seen, as
\* a message FetchFolder skips.
Arrive(f, d) ==
    /\ Cardinality(mailbox) < MaxMsgs
    /\ NoCallRunning
    /\ mailbox' = mailbox \cup {[folder |-> f, uid |-> uidnext[f], internal_date |-> d]}
    /\ uidnext' = [uidnext EXCEPT ![f] = @ + 1]
    /\ ret' = {}
    /\ last_pass' = {}
    /\ UNCHANGED <<Rest, last_op, codec, message_index, sync_state, synced, sessions,
                   syncs, pc, req, since_date, start_web_id, folders, all_messages,
                   before>>

\* A variant of the cache hit that formats the cached id with the baseline
\* folder instead of the folder asked for.
CallHit_BaselineFolder(c, f, u) ==
    /\ pc[c] = "idle"
    /\ Truthy(get_web_id(message_index, account, f, u))
    /\ ret' = Returned(c, f, u,
                       _format_url(ValueOf(get_web_id(message_index, account, f, u)),
                                   BaselineFolder))
    /\ last_pass' = {}
    /\ UNCHANGED <<Rest, last_op, codec, mailbox, uidnext, message_index, sync_state, synced,
                   sessions, syncs, pc, req, since_date, start_web_id, folders,
                   all_messages, before>>

\* get_web_url, cache hit: return the cached id's URL.
CallHit(c, f, u) ==
    /\ pc[c] = "idle"
    /\ Truthy(get_web_id(message_index, account, f, u))
    /\ ret' = Returned(c, f, u,
                       _format_url(ValueOf(get_web_id(message_index, account, f, u)), f))
    /\ last_pass' = {}
    /\ UNCHANGED <<Rest, last_op, codec, mailbox, uidnext, message_index, sync_state, synced,
                   sessions, syncs, pc, req, since_date, start_web_id, folders,
                   all_messages, before>>

\* get_web_url, cache miss after this instance has synced: baseline URL.
CallFallback(c, f, u) ==
    /\ pc[c] = "idle"
    /\ ~Truthy(get_web_id(message_index, account, f, u))
    /\ synced
    /\ ret' = Returned(c, f, u, _format_url(BaselineWebId, BaselineFolder))
    /\ last_pass' = {}
    /\ UNCHANGED <<Rest, last_op, codec, mailbox, uidnext, message_index, sync_state, synced,
                   sessions, syncs, pc, req, since_date, start_web_id, folders,
                   all_messages, before>>

\* get_web_url, cache miss, not synced: _sync_messages up to its first
\* await (ensure_connected).  A first sync stores the baseline row here.
CallSync(c, f, u) ==
    /\ pc[c] = "idle"
    /\ ~Truthy(get_web_id(message_index, account, f, u))
    /\ ~synced
    /\ LET last_sync == get_last_sync_date(sync_state, account)
           max_web_id == get_max_web_id(sync_state, account)
       IN  IF ~FirstSync(sync_state)
           THEN /\ since_date' = [since_date EXCEPT ![c] = ValueOf(last_sync)]
                /\ start_web_id' = [start_web_id EXCEPT ![c] = ValueOf(max_web_id)]
                /\ UNCHANGED message_index
           ELSE /\ since_date' = [since_date EXCEPT ![c] = BaselineDate]
                /\ start_web_id' = [start_web_id EXCEPT ![c] = BaselineWebId]
                /\ message_index' = bulk_insert_messages(message_index, account,
                       <<[folder |-> BaselineFolder, uid |-> BaselineUid,
                          internal_date |-> BaselineDate, web_id |-> BaselineWebId]>>)
    /\ pc' = [pc EXCEPT ![c] = "connect"]
    /\ req' = [req EXCEPT ![c] = <<f, u>>]
    /\ before' = [before EXCEPT ![c] = [index |-> message_index, state |-> sync_state]]
    /\ syncs' = IF syncs < 2 THEN syncs + 1 ELSE syncs
    /\ ret' = {}
    /\ last_pass' = {}
    /\ UNCHANGED <<Rest, last_op, codec, mailbox, uidnext, sync_state, synced, sessions,
                   folders, all_messages>>

\* ensure_connected returns the connection (connecting first when needed).
ConnectOk(c) ==
    /\ pc[c] = "connect"
    /\ pc' = [pc EXCEPT ![c] = "list"]
    /\ ret' = {}
    /\ last_pass' = {}
    /\ UNCHANGED <<Rest, last_op, codec, mailbox, uidnext, message_index, sync_state, synced, sessions,
                   syncs, req, since_date, start_web_id, folders, all_messages, before>>

\* An exception leaves _sync_messages and get_web_url: nothing catches it,
\* and self._synced is not set.
Propagate(c) ==
    /\ Forget(c)
    /\ ret' = Raised(c, req[c][1], req[c][2])
    /\ last_pass' = PassEnded(c, "raised", all_messages[c])
    /\ UNCHANGED <<Rest, last_op, codec, mailbox, uidnext, message_index, sync_state, synced, sessions, syncs>>

\* _connect fails (server unreachable, login refused).
ConnectFail(c) ==
    /\ pc[c] = "connect"
    /\ Propagate(c)

\* _get_all_folders: LIST answers OK with the folders.
ListOk(c) ==
    /\ pc[c] = "list"
    /\ folders' = [folders EXCEPT ![c] = FolderList]
    /\ pc' = [pc EXCEPT ![c] = "fetch"]
    /\ ret' = {}
    /\ last_pass' = {}
    /\ UNCHANGED <<Rest, last_op, codec, mailbox, uidnext, message_index, sync_state, synced,
                   sessions, syncs, req, since_date, start_web_id, all_messages, before>>

\* _get_all_folders: LIST answers not OK or with no lines: ["INBOX"].
ListNotOk(c) ==
    /\ pc[c] = "list"
    /\ folders' = [folders EXCEPT ![c] = <<INBOX>>]
    /\ pc' = [pc EXCEPT ![c] = "fetch"]
    /\ ret' = {}
    /\ last_pass' = {}
    /\ UNCHANGED <<Rest, last_op, codec, mailbox, uidnext, message_index, sync_state, synced,
                   sessions, syncs, req, since_date, start_web_id, all_messages, before>>

\* _get_all_folders: LIST raises (connection lost).
ListFail(c) ==
    /\ pc[c] = "list"
    /\ Propagate(c)

\* The rest of _sync_messages and of get_web_url after the last folder has
\* been fetched; none of it awaits.  An empty batch returns without writing;
\* otherwise the batch is sorted, given ids, upserted, and the checkpoint is
\* set to the last message of the sorted batch.  Then self._synced = True
\* and the second lookup.
Complete(c, fetched) ==
    LET assigned == AssignWebIds(SortByDate(fetched), start_web_id[c])
        newest == assigned[Len(assigned)]
        index2 == IF fetched = <<>> THEN message_index
                  ELSE bulk_insert_messages(message_index, account, assigned)
        web_id == get_web_id(index2, account, req[c][1], req[c][2])
    IN  /\ message_index' = index2
        /\ sync_state' = IF fetched = <<>> THEN sync_state
                         ELSE update_sync_state(sync_state, account, newest.internal_date, newest.web_id)
        /\ synced' = TRUE
        /\ ret' = IF Truthy(web_id)
                  THEN Returned(c, req[c][1], req[c][2],
                                _format_url(ValueOf(web_id), req[c][1]))
                  ELSE Returned(c, req[c][1], req[c][2],
                                _format_url(BaselineWebId, BaselineFolder))
        /\ last_pass' = PassEnded(c, IF fetched = <<>> THEN "empty" ELSE "committed",
                                  fetched)
        /\ Forget(c)

\* The next folder of the loop over folders: its messages are appended.
\* selectable and failing are what the server does: whether SELECT answers
\* OK, and the matching messages whose fetch fails or whose date does not
\* parse.
FetchFolder(c, selectable, failing) ==
    /\ pc[c] = "fetch"
    /\ failing \subseteq Matching(Head(folders[c]), since_date[c])
    /\ ~selectable => failing = {}
    /\ LET fetched == all_messages[c] \o
                      _fetch_folder_messages(Head(folders[c]), since_date[c],
                                             selectable, failing)
       IN  IF Len(folders[c]) = 1
           THEN Complete(c, fetched)
           ELSE /\ all_messages' = [all_messages EXCEPT ![c] = fetched]
                /\ folders' = [folders EXCEPT ![c] = Tail(@)]
                /\ ret' = {}
                /\ last_pass' = {}
                /\ UNCHANGED <<message_index, sync_state, synced, pc, req,
                               since_date, start_web_id, before>>
    /\ UNCHANGED <<Rest, last_op, codec, mailbox, uidnext, sessions, syncs>>

\* A new handler session: a new calculator with its own connection manager
\* over the same store.
NewSession ==
    /\ sessions < MaxSessions
    /\ NoCallRunning
    /\ sessions' = sessions + 1
    /\ synced' = FALSE
    /\ syncs' = 0
    /\ ret' = {}
    /\ last_pass' = {}
    /\ UNCHANGED <<Rest, last_op, codec, mailbox, uidnext, message_index, sync_state, pc, req,
                   since_date, start_web_id, folders, all_messages, before>>

Environment ==
    \/ \E f \in Folders, d \in Dates : Arrive(f, d)
    \/ NewSession

Call(c) ==
    \/ \E k \in Requests : CallHit(c, k[1], k[2])
    \/ \E k \in Requests : CallFallback(c, k[1], k[2])
    \/ \E k \in Requests : CallSync(c, k[1], k[2])

Resume(c) ==
    \/ ConnectOk(c)
    \/ ConnectFail(c)
    \/ ListOk(c)
    \/ ListNotOk(c)
    \/ ListFail(c)
    \/ \E selectable \in BOOLEAN, failing \in SUBSET mailbox :
           FetchFolder(c, selectable, failing)

\* One call at a time: the handler awaits each get_web_url before the next,
\* so a single caller stands for the handler's loop.
Next ==
    \/ Environment
    \/ Call(1)
    \/ Resume(1)

Spec == Init /\ [][Next]_vars

\* Calls may overlap: a call may start while another is suspended in its pass.
EnvironmentConcurrent ==
    \/ \E f \in Folders, d \in Dates :
           Cardinality(mailbox) < MaxOverlapMsgs /\ Arrive(f, d)
    \/ NewSession

NextConcurrent ==
    \/ EnvironmentConcurrent
    \/ \E c \in Callers : Call(c)
    \/ \E c \in Callers : Resume(c)

SpecConcurrent == Init /\ [][NextConcurrent]_vars

\* ------------------------------------------------------ store on its own
\* The store as any caller may use it: every account, messages with and
\* without a thread id, the maintenance operations.

\* SELECT folder, uid, internal_date, mid ... WHERE account = ?
\* ORDER BY internal_date ASC: the order is that of the date text.
get_all_cached_messages(index, acct) ==
    SortByDate(SeqByUid({[folder |-> r.folder, uid |-> r.uid,
                          internal_date |-> r.internal_date, mid |-> r.mid] :
                         r \in {x \in index : x.account = acct}}))

\* datetime.now() - timedelta(days=days): a naive local reading.  now is the
\* slot the clock reading falls in, so no stored date equals the cutoff.
Cutoff(now, days) == now - days * SlotsPerDay

\* internal_date < cutoff.isoformat(), as text: the stored text carries the
\* local reading first, so the local reading decides.
TextBefore(date, cutoff) == date.loc <= cutoff

\* Variants, each a plausible slip: a prune and a wipe that forget the
\* account.
prune_old_messages_AnyAccount(index, acct, now, days) ==
    {r \in index : ~TextBefore(r.internal_date, Cutoff(now, days))}

clear_account_cache_AllCheckpoints(store, acct) ==
    [index |-> {r \in store.index : r.account # acct}, state |-> {}]

\* DELETE FROM message_index WHERE account = ? AND internal_date < ?
prune_old_messages(index, acct, now, days) ==
    {r \in index : ~(r.account = acct /\ TextBefore(r.internal_date, Cutoff(now, days)))}

\* DELETE FROM message_index WHERE account = ?; DELETE FROM sync_state ...
clear_account_cache(store, acct) ==
    [index |-> {r \in store.index : r.account # acct},
     state |-> {x \in store.state : x.account # acct}]

StoreUids == {1, 2}
StoreIds == {1, 2}
StoreDays == {1}
BatchSizes == {0, 1, 2}

\* The internal date of the message with a UID: it never changes.
StoreDate(uid) == IF uid = 1 THEN [loc |-> 1, off |-> 0] ELSE [loc |-> 2, off |-> 1]

StoreDates == {StoreDate(u) : u \in StoreUids}

\* The readings of the local clock when prune_old_messages is called: one
\* and two slots more than a day after slot 0.
StoreNows == {SlotsPerDay + 1, SlotsPerDay + 2}

\* The message dicts handed to bulk_insert_messages: without "tid" (as the
\* sync pass writes them), and with a thread id that differs from the id (as
\* the web API reconciler writes them).
StoreMessages ==
    {[folder |-> INBOX, uid |-> u, internal_date |-> StoreDate(u), mid |-> 1] :
        u \in StoreUids}
    \cup
    {[folder |-> INBOX, uid |-> u, internal_date |-> StoreDate(u), mid |-> 2,
      tid |-> 3] : u \in StoreUids}

Batches == UNION {[1..n -> StoreMessages] : n \in BatchSizes}

Store == [index |-> message_index, state |-> sync_state]

StoreFrame ==
    UNCHANGED <<Rest, mailbox, uidnext, synced, sessions, syncs, pc, req, since_date,
                start_web_id, folders, all_messages, before, ret, last_pass, codec>>

\* bulk_insert_messages(account, messages)
BulkInsert(a, messages) ==
    /\ message_index' = bulk_insert_messages(message_index, a, messages)
    /\ last_op' = {[op |-> "bulk_insert_messages", account |-> a,
                    result |-> Len(messages)]}
    /\ UNCHANGED sync_state
    /\ StoreFrame

\* update_sync_state(account, last_date, max_mid)
UpdateSyncState(a, last_date, max_mid) ==
    /\ sync_state' = update_sync_state(sync_state, a, last_date, max_mid)
    /\ last_op' = {[op |-> "update_sync_state", account |-> a]}
    /\ UNCHANGED message_index
    /\ StoreFrame

\* prune_old_messages(account, days) called when the local clock reads now;
\* zone is the UTC offset of that clock, which the function does not use.
\* The result is cursor.rowcount.
Prune(a, now, zone, days) ==
    /\ message_index' = prune_old_messages(message_index, a, now, days)
    /\ last_op' = {[op |-> "prune_old_messages", account |-> a,
                    now |-> now, zone |-> zone, days |-> days,
                    result |-> Cardinality(message_index \
                                   prune_old_messages(message_index, a, now, days))]}
    /\ UNCHANGED sync_state
    /\ StoreFrame

\* clear_account_cache(account); removed tells whether the account had rows.
ClearAccount(a) ==
    /\ message_index' = clear_account_cache(Store, a).index
    /\ sync_state' = clear_account_cache(Store, a).state
    /\ last_op' = {[op |-> "clear_account_cache", account |-> a,
                    removed |-> (clear_account_cache(Store, a) # Store)]}
    /\ StoreFrame

\* get_message_ids(account, folder, uid)
LookupIds(a, f, u) ==
    /\ last_op' = {[op |-> "get_message_ids", account |-> a, folder |-> f, uid |-> u,
                    result |-> get_message_ids(message_index, a, f, u)]}
    /\ UNCHANGED <<message_index, sync_state>>
    /\ StoreFrame

NextStore ==
    \/ \E a \in Accounts, messages \in Batches : BulkInsert(a, messages)
    \/ \E a \in Accounts, d \in StoreDates, i \in StoreIds : UpdateSyncState(a, d, i)
    \/ \E a \in Accounts, now \in StoreNows, zone \in Offsets, days \in StoreDays :
           Prune(a, now, zone, days)
    \/ \E a \in Accounts : ClearAccount(a)
    \/ \E a \in Accounts, u \in StoreUids : LookupIds(a, INBOX, u)

SpecStore == Init /\ [][NextStore]_vars

\* ------------------------------------------------------ codec on its own
MaxNameLen == 3
MaxWireLen == 5

\* The characters of the folder names tried: a letter, "&", "-", a Cyrillic
\* letter, a line feed and the control character U+0001.
NameChars == {97, Amp, Dash, 1046, 10, 1}

Names == UNION {[1..n -> NameChars] : n \in 0..MaxNameLen}

\* The characters of the wire names tried: "&", "-", the base64 letters
\* A B Y o, "," (the modified alphabet's "/"), "!" (not base64) and a
\* Cyrillic letter (not ASCII).
WireChars == {Amp, Dash, 65, 66, 89, 111, Comma, 33, 1046}

WireNames == UNION {[1..n -> WireChars] : n \in 0..MaxWireLen}

InitCodec ==
    /\ InitCalculator
    /\ Quiet({"codec"})
    /\ codec \in {[stage |-> "name", given |-> s, wire |-> <<>>, back |-> <<>>] :
                     s \in Names}
                \cup {[stage |-> "wire", given |-> <<>>, wire |-> x, back |-> <<>>] :
                          x \in WireNames}

CodecFrame ==
    UNCHANGED <<Rest, mailbox, uidnext, message_index, sync_state, synced, sessions,
                syncs, pc, req, since_date, start_web_id, folders, all_messages,
                before, ret, last_pass, last_op>>

\* wire = encode_imap_utf7(name)
Encode ==
    /\ codec.stage = "name"
    /\ codec' = [codec EXCEPT !.stage = "encoded",
                              !.wire = encode_imap_utf7(codec.given)]
    /\ CodecFrame

\* back = decode_imap_utf7(wire)
DecodeBack ==
    /\ codec.stage = "encoded"
    /\ codec' = [codec EXCEPT !.stage = "decoded",
                              !.back = decode_imap_utf7(codec.wire)]
    /\ CodecFrame

\* name = decode_imap_utf7(wire)
Decode ==
    /\ codec.stage = "wire"
    /\ codec' = [codec EXCEPT !.stage = "read",
                              !.given = decode_imap_utf7(codec.wire)]
    /\ CodecFrame

\* back = encode_imap_utf7(name)
EncodeBack ==
    /\ codec.stage = "read"
    /\ codec' = [codec EXCEPT !.stage = "written",
                              !.back = encode_imap_utf7(codec.given)]
    /\ CodecFrame

NextCodec ==
    \/ Encode
    \/ DecodeBack
    \/ Decode
    \/ EncodeBack

SpecCodec == InitCodec /\ [][NextCodec]_vars

\* ------------------------------------------- matching IMAP to provider
MaxWeb == 2

\* str.strip() and the regular expression's \s, on ASCII text
IsSpace(c) == c \in {9, 10, 11, 12, 13, 32}

RECURSIVE LStrip(_)
LStrip(s) == IF s # <<>> /\ IsSpace(Head(s)) THEN LStrip(Tail(s)) ELSE s

RECURSIVE RStrip(_)
RStrip(s) ==
    IF s # <<>> /\ IsSpace(s[Len(s)]) THEN RStrip(SubSeq(s, 1, Len(s) - 1)) ELSE s

Strip(s) == LStrip(RStrip(s))

\* str.lower() on ASCII text
Lower(s) == [k \in 1..Len(s) |-> IF 65 <= s[k] /\ s[k] <= 90 THEN s[k] + 32 ELSE s[k]]

\* s starts with p, letter case ignored (re.I); p is in lower case
StartsWithI(s, p) == Len(s) >= Len(p) /\ Lower(SubSeq(s, 1, Len(p))) = p

PrefixRe == <<114, 101, 58>>
PrefixFwd == <<102, 119, 100, 58>>

\* re.sub(r'^(Re:\s*|Fwd:\s*)+', '', subject, flags=re.I)
RECURSIVE RemovePrefixes(_)
RemovePrefixes(s) ==
    IF StartsWithI(s, PrefixRe)
    THEN RemovePrefixes(LStrip(SubSeq(s, Len(PrefixRe) + 1, Len(s))))
    ELSE IF StartsWithI(s, PrefixFwd)
    THEN RemovePrefixes(LStrip(SubSeq(s, Len(PrefixFwd) + 1, Len(s))))
    ELSE s

norm_subject(subject) == Lower(Strip(RemovePrefixes(Strip(subject))))

\* abs(web_ts - imap_ts)
AbsDiff(a, b) == IF a >= b THEN a - b ELSE b - a

TwoMinutes == 120000

\* The date of an IMAP message that is not a datetime.
NoDate == -1

\* The candidate the date loop settles on: the first of those with the
\* least difference.  candidates is a sequence of positions in web_messages.
BestOf(web_messages, candidates, imap_ts) ==
    CHOOSE k \in 1..Len(candidates) :
        /\ \A j \in 1..Len(candidates) :
               AbsDiff(web_messages[candidates[k]].timestamp, imap_ts)
                   <= AbsDiff(web_messages[candidates[j]].timestamp, imap_ts)
        /\ \A j \in 1..(k - 1) :
               AbsDiff(web_messages[candidates[j]].timestamp, imap_ts)
                   > AbsDiff(web_messages[candidates[k]].timestamp, imap_ts)

\* The positions of the provider messages with a given normalized subject,
\* in list order: web_by_subject[norm].
CandidatesOf(web_messages, norm) ==
    SelectSeq([k \in 1..Len(web_messages) |-> k],
              LAMBDA k : norm_subject(web_messages[k].subject) = norm)

\* A variant that takes the closest of several candidates however far away
\* it is.
MatchedMsg_NoWindow(web_messages, imap_msg) ==
    LET candidates == CandidatesOf(web_messages, norm_subject(imap_msg.subject))
    IN  IF Len(candidates) = 1 THEN {candidates[1]}
        ELSE IF Len(candidates) > 1 /\ imap_msg.date # NoDate
        THEN {candidates[BestOf(web_messages, candidates, imap_msg.date)]}
        ELSE {}

\* matched_msg for one IMAP message: {its position in web_messages}, or {}
MatchedMsg(web_messages, imap_msg) ==
    LET candidates == CandidatesOf(web_messages, norm_subject(imap_msg.subject))
    IN  IF Len(candidates) = 1 THEN {candidates[1]}
        ELSE IF Len(candidates) > 1 /\ imap_msg.date # NoDate
        THEN LET best == candidates[BestOf(web_messages, candidates, imap_msg.date)]
             IN  IF AbsDiff(web_messages[best].timestamp, imap_msg.date) < TwoMinutes
                 THEN {best} ELSE {}
        ELSE {}

\* (mid, tid) of a provider message: tid is tidRaw, or mid when there is none
IdsOf(web_msg) ==
    [mid |-> web_msg.mid, tid |-> IF web_msg.tidRaw # 0 THEN web_msg.tidRaw ELSE web_msg.mid]

\* uid_to_ids after the IMAP messages from position i on, given what the
\* earlier ones left: a set of [uid, mid, tid], one per matched uid.
RECURSIVE MatchFrom(_, _, _, _)
MatchFrom(imap_messages, web_messages, i, uid_to_ids) ==
    IF i > Len(imap_messages) THEN uid_to_ids
    ELSE LET imap_msg == imap_messages[i]
             matched == MatchedMsg(web_messages, imap_msg)
             now == IF matched = {} THEN uid_to_ids
                    ELSE LET ids == IdsOf(web_messages[CHOOSE k \in matched : TRUE])
                         IN  {r \in uid_to_ids : r.uid # imap_msg.uid}
                             \cup {[uid |-> imap_msg.uid, mid |-> ids.mid, tid |-> ids.tid]}
         IN  MatchFrom(imap_messages, web_messages, i + 1, now)

match_imap_to_web(imap_messages, web_messages) ==
    MatchFrom(imap_messages, web_messages, 1, {})

\* Subjects of IMAP messages: "Re: B", "b", "fwd:RE: B " and "N".
ImapSubjects == {<<82, 101, 58, 32, 66>>, <<98>>,
                 <<102, 119, 100, 58, 82, 69, 58, 32, 66, 32>>, <<78>>}

\* Subjects of provider messages: "B", "RE:b" and "N".
WebSubjects == {<<66>>, <<82, 69, 58, 98>>, <<78>>}

\* Dates of IMAP messages, in milliseconds, and the case of no datetime.
ImapDates == {NoDate, TwoMinutes}

\* Timestamps of provider messages, in milliseconds: TwoMinutes itself, two
\* at the same distance just inside the window, and one at its edge.
WebTimestamps == {1, TwoMinutes, 2 * TwoMinutes - 1, 2 * TwoMinutes}

ImapCounts == {1, 2}

\* IMAP messages of one folder: uids are distinct.
ImapLists ==
    UNION {{[k \in 1..n |-> [uid |-> k, subject |-> f[k].subject, date |-> f[k].date]] :
               f \in [1..n -> [subject : ImapSubjects, date : ImapDates]]} :
           n \in ImapCounts}

\* Provider messages: mids are distinct; the first carries a tidRaw, the
\* others none (0).
WebLists ==
    UNION {{[k \in 1..n |-> [mid |-> 10 + k, tidRaw |-> IF k = 1 THEN 21 ELSE 0,
                             subject |-> f[k].subject, timestamp |-> f[k].timestamp]] :
               f \in [1..n -> [subject : WebSubjects, timestamp : WebTimestamps]]} :
           n \in 0..MaxWeb}

InitMatch ==
    /\ InitCalculator
    /\ Quiet({"matching"})
    /\ matching \in {[stage |-> "called", imap_messages |-> im, web_messages |-> wm,
                      uid_to_ids |-> {}] : im \in ImapLists, wm \in WebLists}

\* uid_to_ids = match_imap_to_web(imap_messages, web_messages)
Match ==
    /\ matching.stage = "called"
    /\ matching' = [matching EXCEPT
                       !.stage = "returned",
                       !.uid_to_ids = match_imap_to_web(matching.imap_messages,
                                                        matching.web_messages)]
    /\ UNCHANGED <<Core, RestButMatching>>

NextMatch == Match

SpecMatch == InitMatch /\ [][NextMatch]_vars

\* ------------------------------------------------ reconcile with the web API
MaxReconciles == 2

\* "Inbox", the provider's name of INBOX
Inbox == <<73, 110, 98, 111, 120>>

\* imap_to_web_folder.get(imap_folder, imap_folder), for the folders used here
WebFolderName(imap_folder) == IF imap_folder = INBOX THEN Inbox ELSE imap_folder

\* self.config.folder_ids.get(imap_folder): {the id}, or {} for None
ConfigFid(imap_folder) ==
    IF imap_folder = INBOX THEN {1}
    ELSE IF imap_folder = DecodedFolder THEN {2}
    ELSE {}

\* fid of an IMAP folder: from the fetched folders by name, else from the
\* configuration, else None
FidOf(web_folders, imap_folder) ==
    LET named == {web_folders[k].fid :
                     k \in {j \in 1..Len(web_folders) :
                               web_folders[j].name = WebFolderName(imap_folder)}}
    IN  IF named # {} THEN named ELSE ConfigFid(imap_folder)

\* INSERT OR REPLACE INTO folder_reference: one row per (account, folder)
set_folder_reference(refs, acct, folder, ref_uid, ref_mid) ==
    {r \in refs : ~(r.account = acct /\ r.folder = folder)} \cup
    {[account |-> acct, folder |-> folder, ref_uid |-> ref_uid, ref_mid |-> ref_mid]}

\* SELECT ref_uid, ref_mid ...: {(ref_uid, ref_mid)}, or {} for None
get_folder_reference(refs, acct, folder) ==
    {<<r.ref_uid, r.ref_mid>> : r \in {x \in refs : x.account = acct /\ x.folder = folder}}

\* A variant that takes the lowest matched UID as the reference.
MaxUid_Lowest(uid_to_ids) ==
    CHOOSE u \in {r.uid : r \in uid_to_ids} : \A r \in uid_to_ids : u <= r.uid

\* max(uid_to_ids.keys())
MaxUid(uid_to_ids) ==
    CHOOSE u \in {r.uid : r \in uid_to_ids} : \A r \in uid_to_ids : r.uid <= u

\* date.isoformat() of a message date given in milliseconds, in UTC
IsoOf(date) == [loc |-> date, off |-> 0]

\* The cache entries of one folder: the IMAP messages whose uid is matched,
\* in list order.
ToCache(imap_folder, imap_messages, uid_to_ids) ==
    LET sel == SelectSeq(imap_messages, LAMBDA m : \E r \in uid_to_ids : r.uid = m.uid)
    IN  [k \in 1..Len(sel) |->
            LET ids == CHOOSE r \in uid_to_ids : r.uid = sel[k].uid
            IN  [folder |-> imap_folder, uid |-> sel[k].uid,
                 internal_date |-> IsoOf(sel[k].date), mid |-> ids.mid, tid |-> ids.tid]]

\* The next folder at or after position i for which messages are fetched:
\* it has IMAP messages and a fid.  0 when there is none.
NextFetch(by_folder, web_folders, i) ==
    LET at == {k \in i..Len(by_folder) :
                  /\ by_folder[k].messages # <<>>
                  /\ FidOf(web_folders, by_folder[k].folder) # {}}
    IN  IF at = {} THEN 0 ELSE CHOOSE k \in at : \A j \in at : k <= j

\* IMAP messages of a folder handed to the reconcile call, newest last.
ReconImap ==
    LET m1 == [uid |-> 1, subject |-> <<98>>, date |-> TwoMinutes]
        m2 == [uid |-> 2, subject |-> <<78>>, date |-> TwoMinutes]
    IN  {<<>>, <<m1>>, <<m1, m2>>}

\* Answers of the provider's message list for a folder; <<>> also stands for
\* a failed request.
ReconWeb ==
    LET w1 == [mid |-> 11, tidRaw |-> 21, subject |-> <<66>>, timestamp |-> TwoMinutes]
        w2 == [mid |-> 12, tidRaw |-> 0, subject |-> <<78>>, timestamp |-> TwoMinutes]
    IN  {<<>>, <<w1>>, <<w2>>, <<w1, w2>>}

\* Answers of the provider's folder list; <<>> also stands for a failed
\* request.
WebFolderLists ==
    {<<>>, <<[fid |-> 1, name |-> Inbox]>>,
     <<[fid |-> 1, name |-> Inbox], [fid |-> 2, name |-> DecodedFolder]>>}

\* imap_messages_by_folder: the folders in dict order.  The wire name of a
\* folder is neither a provider name nor a configured one.
ReconFolderOrders == {<<>>, <<INBOX>>, <<INBOX, DecodedFolder>>, <<INBOX, WireFolder>>}

ReconArgs ==
    UNION {{[k \in 1..Len(order) |-> [folder |-> order[k], messages |-> f[k]]] :
               f \in [1..Len(order) -> ReconImap]} : order \in ReconFolderOrders}

ReconFrame ==
    UNCHANGED <<CoreButIndex, RestButRecon>>

InitReconcile ==
    /\ InitCalculator
    /\ Quiet({"recon"})
    /\ folder_reference = {}
    /\ recon \in {[stage |-> "idle", cookies |-> c, ckey |-> FALSE, by_folder |-> <<>>,
                   web_folders |-> <<>>, next |-> 0, total_synced |-> 0,
                   messages_to_cache |-> <<>>, result |-> 0, calls |-> 0,
                   before |-> [index |-> {}, refs |-> {}], matched |-> {}] :
                     c \in BOOLEAN}

\* The end of sync_mids_to_cache once no folder is left: the bulk insert and
\* the return of total_synced.
Finish(r) ==
    /\ message_index' = IF r.messages_to_cache # <<>>
                        THEN bulk_insert_messages(message_index, account, r.messages_to_cache)
                        ELSE message_index
    /\ recon' = [r EXCEPT !.stage = "returned", !.result = r.total_synced]

\* After the folders up to position i - 1: messages of the next folder are
\* requested, or the call ends.
Continue(r, i) ==
    LET k == NextFetch(r.by_folder, r.web_folders, i)
    IN  IF k = 0 THEN Finish(r)
        ELSE /\ recon' = [r EXCEPT !.stage = "fetch_messages", !.next = k]
             /\ UNCHANGED message_index

\* sync_mids_to_cache(account, imap_messages_by_folder) is called.
ReconcileCall(by_folder) ==
    /\ recon.stage \in {"idle", "returned", "raised"}
    /\ recon.calls < MaxReconciles
    /\ recon' = [recon EXCEPT !.stage = "fetch_folders", !.by_folder = by_folder,
                              !.web_folders = <<>>, !.next = 0, !.total_synced = 0,
                              !.messages_to_cache = <<>>, !.result = 0,
                              !.calls = @ + 1,
                              !.before = [index |-> message_index,
                                          refs |-> folder_reference],
                              !.matched = {}]
    /\ UNCHANGED <<message_index, folder_reference>>
    /\ ReconFrame

\* A variant that goes on to the folders, with the configured fids, when no
\* folder could be fetched.
FetchFolders_GoesOnWithoutFolders(sk, response) ==
    /\ recon.stage = "fetch_folders"
    /\ response # <<>> => recon.cookies
    /\ LET ckey == recon.ckey \/ sk
           web_folders == IF ckey THEN response ELSE <<>>
           r == [recon EXCEPT !.ckey = ckey, !.web_folders = web_folders]
       IN  Continue(r, 1)
    /\ UNCHANGED folder_reference
    /\ ReconFrame

\* folders = await self.fetch_folders(): sk tells whether the page gives a
\* session key (asked for only while none is held), response is the
\* provider's folder list.  The provider lists folders only for a request
\* that carries the session's cookies.
FetchFolders(sk, response) ==
    /\ recon.stage = "fetch_folders"
    /\ response # <<>> => recon.cookies
    /\ LET ckey == recon.ckey \/ sk
           web_folders == IF ckey THEN response ELSE <<>>
           r == [recon EXCEPT !.ckey = ckey, !.web_folders = web_folders]
       IN  IF web_folders = <<>>
           THEN /\ recon' = [r EXCEPT !.stage = "returned", !.result = 0]
                /\ UNCHANGED message_index
           ELSE Continue(r, 1)
    /\ UNCHANGED folder_reference
    /\ ReconFrame

\* web_messages = await self.fetch_messages(...) for the folder at r.next,
\* then the matching, the cache entries and the folder reference; the loop
\* goes on to the next folder or the call ends.
FetchMessages(web_messages) ==
    /\ recon.stage = "fetch_messages"
    /\ LET entry == recon.by_folder[recon.next]
           uid_to_ids == IF web_messages = <<>> THEN {}
                         ELSE match_imap_to_web(entry.messages, web_messages)
           r == [recon EXCEPT
                    !.messages_to_cache =
                        @ \o ToCache(entry.folder, entry.messages, uid_to_ids),
                    !.total_synced = @ + Cardinality(uid_to_ids),
                    !.matched = @ \cup {[folder |-> entry.folder, uid |-> m.uid,
                                         mid |-> m.mid, tid |-> m.tid] : m \in uid_to_ids}]
       IN  /\ folder_reference' =
                  IF uid_to_ids # {}
                  THEN LET max_uid == MaxUid(uid_to_ids)
                           max_mid == (CHOOSE m \in uid_to_ids : m.uid = max_uid).mid
                       IN  set_folder_reference(folder_reference, account, entry.folder,
                                                max_uid, max_mid)
                  ELSE folder_reference
           /\ Continue(r, recon.next + 1)
    /\ ReconFrame

\* The call ends with an exception while the folder at r.next is handled:
\* the task is cancelled while it awaits fetch_messages (CancelledError is
\* not an Exception, so fetch_messages lets it through), or the provider's
\* list holds a message without a numeric mid and match_imap_to_web raises
\* KeyError or ValueError.  The entries collected so far are dropped.
FetchMessagesRaises ==
    /\ recon.stage = "fetch_messages"
    /\ recon' = [recon EXCEPT !.stage = "raised"]
    /\ UNCHANGED <<message_index, folder_reference>>
    /\ ReconFrame

\* An estimate written to the index between reconcile calls.
Estimate(messages) ==
    /\ recon.stage \in {"idle", "returned", "raised"}
    /\ Len(messages) = 1
    /\ BulkInsert(account, messages)

NextReconcile ==
    \/ \E by_folder \in ReconArgs : ReconcileCall(by_folder)
    \/ \E sk \in BOOLEAN, response \in WebFolderLists : FetchFolders(sk, response)
    \/ \E web_messages \in ReconWeb : FetchMessages(web_messages)
    \/ FetchMessagesRaises
    \/ \E messages \in Batches : Estimate(messages)

SpecReconcile == InitReconcile /\ [][NextReconcile]_vars

\* --------------------------------- get_emails_content (classic.py, cache.py)
\* The messages the caches can hold rows of: two of INBOX and one of the
\* other folder for the account, and one of INBOX for the other account.
CacheKeys ==
    {[account |-> "A", folder |-> INBOX, uid |-> 1],
     [account |-> "A", folder |-> INBOX, uid |-> 2],
     [account |-> "A", folder |-> WireFolder, uid |-> 1],
     [account |-> "B", folder |-> INBOX, uid |-> 1]}

\* Flags of a message as the metadata listing reads them, and the flags a
\* row gets when the writer passes none.
Seen == {"\\Seen"}
NoFlags == {}

\* What the server holds of a message: subject "s", body "b".
ServerSubject == <<115>>
ServerBody == <<98>>

\* The parsed message get_email_bodies_batch gives for an id it could fetch.
EmailData(email_id) ==
    [email_id |-> email_id, subject |-> ServerSubject, body |-> ServerBody]

\* SELECT ... FROM email_body WHERE account = ? AND folder = ? AND uid = ?
get_body(bodies, acct, folder, uid) == RowsOf(bodies, acct, folder, uid)

\* INSERT OR REPLACE INTO email_body
store_body(bodies, acct, folder, uid, body_text) ==
    (bodies \ RowsOf(bodies, acct, folder, uid)) \cup
    {[account |-> acct, folder |-> folder, uid |-> uid, body_text |-> body_text]}

\* e.get("flags", [])
FlagsOf(e) == IF "flags" \in DOMAIN e THEN e.flags ELSE NoFlags

\* INSERT OR REPLACE INTO email_metadata, one row for each of the emails
RECURSIVE store_metadata(_, _, _, _)
store_metadata(metadata, acct, folder, emails) ==
    IF emails = <<>> THEN metadata
    ELSE LET e == Head(emails)
         IN  store_metadata(
                 (metadata \ RowsOf(metadata, acct, folder, e.uid)) \cup
                 {[account |-> acct, folder |-> folder, uid |-> e.uid,
                   subject |-> e.subject, flags |-> FlagsOf(e)]},
                 acct, folder, Tail(emails))

\* A variant of delete_email that looks at the UID alone.
delete_email_AnyFolder(s, acct, folder, uid) ==
    [metadata |-> {x \in s.metadata : x.uid # uid},
     body |-> {x \in s.body : x.uid # uid},
     index |-> {x \in s.index : x.uid # uid}]

\* delete_email: DELETE FROM email_metadata, email_body and message_index
\* WHERE account = ? AND folder = ? AND uid = ?
delete_email(s, acct, folder, uid) ==
    [metadata |-> s.metadata \ RowsOf(s.metadata, acct, folder, uid),
     body |-> s.body \ RowsOf(s.body, acct, folder, uid),
     index |-> s.index \ RowsOf(s.index, acct, folder, uid)]

\* The three tables delete_email works on.
Caches == [metadata |-> email_metadata, body |-> email_body, index |-> message_index]

\* The ids of a request: decimal UIDs as the metadata listing gave them, no
\* id twice.
ContentIds == {<<1>>, <<2>>, <<1, 2>>, <<2, 1>>}

ContentArgs ==
    {[email_ids |-> ids, mailbox |-> f] :
        ids \in ContentIds, f \in Folders}

\* for email_id in email_ids: the ids whose body the cache holds
CachedIds(bodies, email_ids, folder) ==
    {email_ids[i] : i \in {j \in 1..Len(email_ids) :
                              get_body(bodies, account, folder, email_ids[j]) # {}}}

\* After the batch came back: store_body and store_metadata for every id of
\* uncached_ids that was fetched, in the order of the batch.
RECURSIVE StoreFetched(_, _, _, _)
StoreFetched(s, folder, uncached_ids, fetched) ==
    IF uncached_ids = <<>> THEN s
    ELSE LET id == Head(uncached_ids)
             t == IF id \in fetched
                  THEN [s EXCEPT
                          !.body = store_body(s.body, account, folder, id,
                                              EmailData(id).body),
                          !.metadata = store_metadata(s.metadata, account, folder,
                                           <<[uid |-> id,
                                              subject |-> EmailData(id).subject]>>)]
                  ELSE s
         IN  StoreFetched(t, folder, Tail(uncached_ids), fetched)

\* The loop that builds the response: an id with a cached body or a fetched
\* one is answered "ok"; an id the batch gave None for has its rows deleted
\* and is answered "not_found" and listed among the failed ids.
RECURSIVE Respond(_, _, _, _, _)
Respond(r, folder, email_ids, cached, fetched) ==
    IF email_ids = <<>> THEN r
    ELSE LET id == Head(email_ids)
             t == IF id \in cached \/ id \in fetched
                  THEN [r EXCEPT !.emails = Append(@, [email_id |-> id, status |-> "ok"])]
                  ELSE [caches |-> delete_email(r.caches, account, folder, id),
                        emails |-> Append(r.emails,
                                          [email_id |-> id, status |-> "not_found"]),
                        failed_ids |-> Append(r.failed_ids, id)]
         IN  Respond(t, folder, Tail(email_ids), cached, fetched)

ContentFrame ==
    UNCHANGED <<CoreButIndex, RestButCaches, folder_watermark, meta>>

InitContent ==
    /\ InitCalculator
    /\ Quiet({"content"})
    /\ email_metadata = {}
    /\ email_body = {}
    /\ content = [stage |-> "idle"]

ContentAtRest == content.stage \in {"idle", "returned", "raised"}

\* The return of get_emails_content.
ContentReturn(args, cached, fetched) ==
    LET stored == StoreFetched(Caches, args.mailbox,
                               SelectSeq(args.email_ids, LAMBDA id : id \notin cached),
                               fetched)
        r == Respond([caches |-> stored, emails |-> <<>>, failed_ids |-> <<>>],
                     args.mailbox, args.email_ids, cached, fetched)
    IN  /\ email_metadata' = r.caches.metadata
        /\ email_body' = r.caches.body
        /\ message_index' = r.caches.index
        /\ content' = [stage |-> "returned", email_ids |-> args.email_ids,
                       mailbox |-> args.mailbox, cached |-> cached,
                       fetched |-> fetched, emails |-> r.emails,
                       failed_ids |-> r.failed_ids,
                       removed |-> Cardinality(stored.metadata \ r.caches.metadata)
                                   + Cardinality(stored.body \ r.caches.body)
                                   + Cardinality(stored.index \ r.caches.index),
                       requested_count |-> Len(args.email_ids),
                       retrieved_count |-> Len(args.email_ids) - Len(r.failed_ids)]

\* get_emails_content(email_ids, mailbox) up to the request for the bodies
\* the cache does not hold; with every body cached the call returns at once.
ContentCall(args) ==
    /\ ContentAtRest
    /\ LET cached == CachedIds(email_body, args.email_ids, args.mailbox)
       IN  IF \A i \in 1..Len(args.email_ids) : args.email_ids[i] \in cached
           THEN ContentReturn(args, cached, {})
           ELSE /\ content' = [stage |-> "pending", email_ids |-> args.email_ids,
                               mailbox |-> args.mailbox, cached |-> cached]
                /\ UNCHANGED <<email_metadata, email_body, message_index>>
    /\ ContentFrame

\* get_email_bodies_batch came back: a parsed message for the ids in fetched,
\* None for the other ids asked for.
ContentFetched(fetched) ==
    /\ content.stage = "pending"
    /\ fetched \subseteq {content.email_ids[i] : i \in 1..Len(content.email_ids)}
                         \ content.cached
    /\ ContentReturn([email_ids |-> content.email_ids, mailbox |-> content.mailbox],
                     content.cached, fetched)
    /\ ContentFrame

\* execute_with_retry gave up on the connection: get_emails_content raises
\* what it raised.
ContentRaises ==
    /\ content.stage = "pending"
    /\ content' = [stage |-> "raised", email_ids |-> content.email_ids,
                   mailbox |-> content.mailbox, cached |-> content.cached]
    /\ UNCHANGED <<email_metadata, email_body, message_index>>
    /\ ContentFrame

\* Between calls, the calculator puts the id of a message into the index.
IndexMessage(k) ==
    /\ ContentAtRest
    /\ message_index' = bulk_insert_messages(message_index, k.account,
                            <<[folder |-> k.folder, uid |-> k.uid,
                               internal_date |-> BaselineDate,
                               web_id |-> BaselineWebId + k.uid]>>)
    /\ UNCHANGED <<email_metadata, email_body, content>>
    /\ ContentFrame

\* Between calls, a metadata listing caches the headers and flags of a
\* message.
ListMessage(k) ==
    /\ ContentAtRest
    /\ email_metadata' = store_metadata(email_metadata, k.account, k.folder,
                             <<[uid |-> k.uid, subject |-> ServerSubject,
                                flags |-> Seen]>>)
    /\ UNCHANGED <<email_body, message_index, content>>
    /\ ContentFrame

\* Between calls, the handler of the other account caches a body it fetched.
OtherAccountFetches(k) ==
    /\ ContentAtRest
    /\ k.account # account
    /\ email_body' = store_body(email_body, k.account, k.folder, k.uid, ServerBody)
    /\ email_metadata' = store_metadata(email_metadata, k.account, k.folder,
                             <<[uid |-> k.uid, subject |-> ServerSubject]>>)
    /\ UNCHANGED <<message_index, content>>
    /\ ContentFrame

NextContent ==
    \/ \E args \in ContentArgs : ContentCall(args)
    \/ \E fetched \in SUBSET {1, 2} : ContentFetched(fetched)
    \/ ContentRaises
    \/ \E k \in CacheKeys : IndexMessage(k)
    \/ \E k \in CacheKeys : ListMessage(k)
    \/ \E k \in CacheKeys : OtherAccountFetches(k)

SpecContent == InitContent /\ [][NextContent]_vars

\* ------------------------------------------------ _format_url on its own
\* baseline.url_prefix
UrlPrefix == "mail.360.yandex.ru"

\* The text of a URL, as the parts the f-string puts together (the two
\* numbers in decimal).
UrlText(u) ==
    <<"https://", UrlPrefix, "/touch/folder/", u.folder_id, "/thread/", u.thread>>

\* Folder names _format_url is given: the two folders of the account by wire
\* name and by decoded name, and every string of up to MaxNameLen of the
\* wire characters.
UrlFolders ==
    {INBOX, WireFolder, DecodedFolder}
        \cup UNION {[1..n -> WireChars] : n \in 0..MaxNameLen}

UrlIds == {BaselineWebId, BaselineWebId + 123}

InitUrl ==
    /\ InitCalculator
    /\ Quiet({"call"})
    /\ call \in {[stage |-> "asked", web_id |-> id, folder |-> f, url |-> <<>>] :
                    id \in UrlIds, f \in UrlFolders}

\* url = self._format_url(web_id, folder)
FormatUrl ==
    /\ call.stage = "asked"
    /\ call' = [call EXCEPT !.stage = "formatted",
                            !.url = UrlText(_format_url(call.web_id, call.folder))]
    /\ UNCHANGED <<Core, RestButCall>>

NextUrl == FormatUrl

SpecUrl == InitUrl /\ [][NextUrl]_vars

\* ------------------------------------------------- send_email (classic.py)
Addresses == {"a@x", "b@x"}

\* Lists of up to two addresses.
AddrLists == UNION {[1..n -> Addresses] : n \in 0..2}

\* An optional argument: {} for None, {v} for the value v.
Optional(values) == {{}} \cup {{v} : v \in values}

\* Python truth of an optional list: None and the empty list are false.
GivenList(opt) == opt # {} /\ opt # {<<>>}

\* Python truth of an optional string: None and the empty string are false.
GivenText(opt) == opt # {} /\ opt # {""}

\* self.sender, "me@x" as code points
Sender == <<109, 101, 64, 120>>

\* Subjects, as code points: "hi" and the one letter U+0416.
SendSubjects == {<<104, 105>>, <<1046>>}

SendArgs ==
    [recipients : AddrLists \ {<<>>}, subject : SendSubjects,
     cc : Optional(AddrLists), bcc : Optional(AddrLists),
     in_reply_to : Optional({"<m1@x>"}), references : Optional({"<m0@x> <m1@x>"})]

\* ", ".join(addresses), as the list of its pieces
RECURSIVE Join(_)
Join(addresses) ==
    IF addresses = <<>> THEN <<>>
    ELSE IF Len(addresses) = 1 THEN <<Head(addresses)>>
    ELSE <<Head(addresses), ", ">> \o Join(Tail(addresses))

\* Header(text, "utf-8") for a text with characters above 127, the text
\* itself (charset "none") otherwise
HeaderValue(text) ==
    IF \E i \in 1..Len(text) : text[i] > 127
    THEN <<[header |-> text, charset |-> "utf-8"]>>
    ELSE <<[header |-> text, charset |-> "none"]>>

\* The headers MIMEText(body, "plain", "utf-8") starts with.
MimeHeaders ==
    <<[name |-> "Content-Type", value |-> <<"text/plain; charset=\"utf-8\"">>],
      [name |-> "MIME-Version", value |-> <<"1.0">>],
      [name |-> "Content-Transfer-Encoding", value |-> <<"base64">>]>>

OptionalHeader(name, opt) ==
    IF GivenText(opt) THEN <<[name |-> name, value |-> <<CHOOSE v \in opt : TRUE>>]>>
    ELSE <<>>

\* A variant of the message that also writes the bcc list into a header.
BuildMessage_WithBcc(args, uuid, now) ==
    MimeHeaders
      \o <<[name |-> "Message-ID", value |-> <<uuid>>]>>
      \o OptionalHeader("In-Reply-To", args.in_reply_to)
      \o OptionalHeader("References", args.references)
      \o <<[name |-> "Subject",
            value |-> HeaderValue(args.subject)],
           [name |-> "From", value |-> HeaderValue(Sender)],
           [name |-> "To", value |-> Join(args.recipients)],
           [name |-> "Date", value |-> <<now>>]>>
      \o (IF GivenList(args.cc)
          THEN <<[name |-> "Cc", value |-> Join(CHOOSE v \in args.cc : TRUE)]>>
          ELSE <<>>)
      \o (IF GivenList(args.bcc)
          THEN <<[name |-> "Bcc", value |-> Join(CHOOSE v \in args.bcc : TRUE)]>>
          ELSE <<>>)

\* The message EmailClient.send_email builds: the headers in the order they
\* are set.
BuildMessage(args, uuid, now) ==
    MimeHeaders
      \o <<[name |-> "Message-ID", value |-> <<uuid>>]>>
      \o OptionalHeader("In-Reply-To", args.in_reply_to)
      \o OptionalHeader("References", args.references)
      \o <<[name |-> "Subject",
            value |-> HeaderValue(args.subject)],
           [name |-> "From", value |-> HeaderValue(Sender)],
           [name |-> "To", value |-> Join(args.recipients)],
           [name |-> "Date", value |-> <<now>>]>>
      \o (IF GivenList(args.cc)
          THEN <<[name |-> "Cc", value |-> Join(CHOOSE v \in args.cc : TRUE)]>>
          ELSE <<>>)

\* all_recipients = recipients.copy(), extended by cc and by bcc
AllRecipients(args) ==
    args.recipients
      \o (IF GivenList(args.cc) THEN CHOOSE v \in args.cc : TRUE ELSE <<>>)
      \o (IF GivenList(args.bcc) THEN CHOOSE v \in args.bcc : TRUE ELSE <<>>)

\* uuid.uuid4() and the clock reading of formatdate.
Uuids == {"u1", "u2"}
SendTimes == {"t1", "t2"}

InitSend ==
    /\ InitCalculator
    /\ Quiet({"call"})
    /\ call \in {[stage |-> "asked", args |-> a] : a \in SendArgs}

\* ClassicEmailHandler.send_email: the message is built and handed to the
\* SMTP server with the delivery list, then appended to the Sent folder when
\* one is found.
SendEmail(uuid, now, saved) ==
    /\ call.stage = "asked"
    /\ LET msg == BuildMessage(call.args, uuid, now)
       IN  call' = [stage |-> "sent", args |-> call.args, msg |-> msg,
                    all_recipients |-> AllRecipients(call.args),
                    sent_folder |-> IF saved THEN {msg} ELSE {}]
    /\ UNCHANGED <<Core, RestButCall>>

\* The SMTP session fails: send_email raises, nothing is saved.
SendFails ==
    /\ call.stage = "asked"
    /\ call' = [stage |-> "raised", args |-> call.args]
    /\ UNCHANGED <<Core, RestButCall>>

NextSend ==
    \/ \E uuid \in Uuids, now \in SendTimes, saved \in BOOLEAN :
           SendEmail(uuid, now, saved)
    \/ SendFails

SpecSend == InitSend /\ [][NextSend]_vars

\* ------------------------------------- _build_search_criteria (classic.py)
\* Texts are sequences of code points.  The keywords:
KwAll == <<65, 76, 76>>
KwBefore == <<66, 69, 70, 79, 82, 69>>
KwSince == <<83, 73, 78, 67, 69>>
KwSubject == <<83, 85, 66, 74, 69, 67, 84>>
KwBody == <<66, 79, 68, 89>>
KwText == <<84, 69, 88, 84>>
KwFrom == <<70, 82, 79, 77>>
KwTo == <<84, 79>>

\* %b in the C locale (the process sets no other): Jan Feb Mar Apr May Jun
\* Jul Aug Sep Oct Nov Dec
MonthAbbr ==
    <<<<74, 97, 110>>, <<70, 101, 98>>, <<77, 97, 114>>, <<65, 112, 114>>,
      <<77, 97, 121>>, <<74, 117, 110>>, <<74, 117, 108>>, <<65, 117, 103>>,
      <<83, 101, 112>>, <<79, 99, 116>>, <<78, 111, 118>>, <<68, 101, 99>>>>

\* The code point of a decimal digit.
Digit(d) == 48 + d

\* str.upper() on ASCII letters
Upper(s) == [i \in 1..Len(s) |-> IF s[i] \in 97..122 THEN s[i] - 32 ELSE s[i]]

\* A variant of the date text with the month in capitals.
FormatDate_MonthInCapitals(d) ==
    <<Digit(d.day \div 10), Digit(d.day % 10), Dash>>
      \o Upper(MonthAbbr[d.month]) \o <<Dash>>
      \o <<Digit(d.year \div 1000), Digit((d.year \div 100) % 10),
           Digit((d.year \div 10) % 10), Digit(d.year % 10)>>

\* strftime("%d-%b-%Y") of a date with a year of four digits
FormatDate(d) ==
    <<Digit(d.day \div 10), Digit(d.day % 10), Dash>>
      \o MonthAbbr[d.month] \o <<Dash>>
      \o <<Digit(d.year \div 1000), Digit((d.year \div 100) % 10),
           Digit((d.year \div 10) % 10), Digit(d.year % 10)>>

\* The dates tried: 5 Jan 2024, 15 Dec 2023, 31 May 1999, 10 Aug 2000.
SearchDates ==
    {[day |-> 5, month |-> 1, year |-> 2024], [day |-> 15, month |-> 12, year |-> 2023],
     [day |-> 31, month |-> 5, year |-> 1999], [day |-> 10, month |-> 8, year |-> 2000]}

\* The strings tried: None, the empty string, "x".
SearchTexts == {{}, {<<>>}, {<<120>>}}

SearchArgs ==
    [before : Optional(SearchDates), since : Optional(SearchDates),
     subject : SearchTexts, body : SearchTexts, text : SearchTexts,
     from_address : SearchTexts, to_address : SearchTexts]

\* if x: search_criteria.extend([keyword, value]) -- a datetime is always
\* true, a string is true unless empty
DateCriterion(keyword, opt) ==
    IF opt # {} THEN <<keyword, FormatDate(CHOOSE d \in opt : TRUE)>> ELSE <<>>

TextCriterion(keyword, opt) ==
    IF GivenList(opt) THEN <<keyword, CHOOSE v \in opt : TRUE>> ELSE <<>>

_build_search_criteria(a) ==
    LET search_criteria ==
            DateCriterion(KwBefore, a.before) \o DateCriterion(KwSince, a.since)
              \o TextCriterion(KwSubject, a.subject) \o TextCriterion(KwBody, a.body)
              \o TextCriterion(KwText, a.text)
              \o TextCriterion(KwFrom, a.from_address)
              \o TextCriterion(KwTo, a.to_address)
    IN  IF search_criteria = <<>> THEN <<KwAll>> ELSE search_criteria

InitSearch ==
    /\ InitCalculator
    /\ Quiet({"call"})
    /\ call \in {[stage |-> "asked", args |-> a, result |-> <<>>] : a \in SearchArgs}

BuildSearchCriteria ==
    /\ call.stage = "asked"
    /\ call' = [call EXCEPT !.stage = "built",
                            !.result = _build_search_criteria(call.args)]
    /\ UNCHANGED <<Core, RestButCall>>

NextSearch == BuildSearchCriteria

SpecSearch == InitSearch /\ [][NextSearch]_vars

\* -------------------------------- get_emails_metadata (classic.py, cache.py)
\* SELECT highest_uid FROM folder_watermark ...: the UID, or 0 without a row
get_watermark(marks, acct, folder) ==
    LET rows == {x \in marks : x.account = acct /\ x.folder = folder}
    IN  IF rows = {} THEN 0 ELSE (CHOOSE x \in rows : TRUE).highest_uid

\* INSERT OR REPLACE INTO folder_watermark
set_watermark(marks, acct, folder, highest_uid) ==
    {x \in marks : ~(x.account = acct /\ x.folder = folder)}
        \cup {[account |-> acct, folder |-> folder, highest_uid |-> highest_uid]}

\* sorted(uids)
RECURSIVE Sorted(_)
Sorted(S) ==
    IF S = {} THEN <<>>
    ELSE LET least == CHOOSE x \in S : \A y \in S : x <= y
         IN  <<least>> \o Sorted(S \ {least})

\* get_uids_above_watermark: the UIDs of the folder the server reports for
\* "ALL" (watermark 0) or "UID watermark+1:*", those above the watermark, in
\* ascending order.
get_uids_above_watermark(watermark, folder) ==
    Sorted({m.uid : m \in {x \in mailbox : x.folder = folder /\ x.uid > watermark}})

\* fetch_metadata_for_uids: a dict for each UID whose headers were fetched,
\* nothing for the UIDs whose fetch failed.
fetch_metadata_for_uids(uids, failing) ==
    LET ok == SelectSeq(uids, LAMBDA u : u \notin failing)
    IN  [k \in 1..Len(ok) |-> [uid |-> ok[k], subject |-> ServerSubject]]

\* max(new_uids)
MaxOf(uids) == CHOOSE u \in Range(uids) : \A v \in Range(uids) : v <= u

DefaultPage == 1
DefaultPageSize == 10

\* get_metadata_page: the rows of the folder ORDER BY uid DESC (or ASC),
\* LIMIT page_size OFFSET (page - 1) * page_size, and their total count.
get_metadata_page(metadata, acct, folder, page, page_size, order) ==
    LET rows == {x \in metadata : x.account = acct /\ x.folder = folder}
        asc == Sorted({x.uid : x \in rows})
        total == Len(asc)
        ordered == IF order = "desc" THEN [k \in 1..total |-> asc[total + 1 - k]]
                   ELSE asc
        offset == (page - 1) * page_size
        count == IF total - offset < 0 THEN 0
                 ELSE IF total - offset < page_size THEN total - offset
                 ELSE page_size
    IN  [emails |-> [k \in 1..count |-> ordered[offset + k]], total |-> total]

\* The UIDs the server can have given out.
MetaUids == (1..MaxMsgs) \cup (BaselineUid..(BaselineUid + MaxMsgs))

MetaFrame ==
    UNCHANGED <<CoreButIndex, RestButCaches, message_index, email_body, content>>

InitMeta ==
    /\ InitCalculator
    /\ Quiet({"meta"})
    /\ email_metadata = {}
    /\ folder_watermark = {}
    /\ meta = [stage |-> "idle", mailbox |-> INBOX, watermark |-> 0,
               new_uids |-> <<>>, reported |-> [f \in Folders |-> {}],
               emails |-> <<>>, total |-> 0]

\* 6. the requested page from the cache, and the return
MetaReturn(m, metadata) ==
    LET page == get_metadata_page(metadata, account, m.mailbox,
                                  DefaultPage, DefaultPageSize, "desc")
    IN  [m EXCEPT !.stage = "returned", !.emails = page.emails, !.total = page.total]

\* get_emails_metadata(mailbox = f) without filters, up to the search above
\* the watermark
MetaCall(f) ==
    /\ meta.stage \in {"idle", "returned", "raised"}
    /\ meta' = [meta EXCEPT !.stage = "search", !.mailbox = f,
                            !.watermark = get_watermark(folder_watermark, account, f),
                            !.new_uids = <<>>, !.emails = <<>>, !.total = 0]
    /\ UNCHANGED <<email_metadata, folder_watermark>>
    /\ MetaFrame

\* The search came back with the UIDs above the watermark: without new UIDs
\* the call returns the cached page, otherwise it asks for their headers.
MetaSearched ==
    /\ meta.stage = "search"
    /\ LET new_uids == get_uids_above_watermark(meta.watermark, meta.mailbox)
           m == [meta EXCEPT !.new_uids = new_uids,
                             !.reported[meta.mailbox] = @ \cup Range(new_uids)]
       IN  meta' = IF new_uids = <<>> THEN MetaReturn(m, email_metadata)
                   ELSE [m EXCEPT !.stage = "fetch"]
    /\ UNCHANGED <<email_metadata, folder_watermark>>
    /\ MetaFrame

\* The headers came back, except those of the UIDs in failing: the metadata
\* fetched is cached, the watermark is set to max(new_uids) and the page is
\* read from the cache.
MetaFetched(failing) ==
    /\ meta.stage = "fetch"
    /\ failing \subseteq Range(meta.new_uids)
    /\ LET new_metadata == fetch_metadata_for_uids(meta.new_uids, failing)
           stored == IF new_metadata # <<>>
                     THEN store_metadata(email_metadata, account, meta.mailbox,
                                         new_metadata)
                     ELSE email_metadata
       IN  /\ email_metadata' = stored
           /\ folder_watermark' = set_watermark(folder_watermark, account,
                                                meta.mailbox, MaxOf(meta.new_uids))
           /\ meta' = MetaReturn(meta, stored)
    /\ MetaFrame

\* execute_with_retry gave up on the connection during the search or the
\* header fetch: get_emails_metadata raises what it raised.
MetaRaises ==
    /\ meta.stage \in {"search", "fetch"}
    /\ meta' = [meta EXCEPT !.stage = "raised"]
    /\ UNCHANGED <<email_metadata, folder_watermark>>
    /\ MetaFrame

\* A message arrives in a folder.
MetaArrive(f) == Arrive(f, BaselineDate)

NextMeta ==
    \/ \E f \in Folders : MetaCall(f)
    \/ MetaSearched
    \/ \E failing \in SUBSET MetaUids : MetaFetched(failing)
    \/ MetaRaises
    \/ \E f \in Folders : MetaArrive(f)

SpecMeta == InitMeta /\ [][NextMeta]_vars

\* ------------------------------------------------------------ the connection manager
\* IMAPConnectionManager (imap_connection.py): one shared connection, the
\* folder tracked as selected on it, and execute_with_retry.  A caller is a
\* coroutine; it is suspended only where the code awaits the server (the
\* lock held by another caller, the greeting and LOGIN of _connect, SELECT,
\* a command of the operation, LOGOUT), and everything between two such
\* points is one step.  The server keeps, for every connection it accepted,
\* whether it is open and which mailbox is selected on it; a SELECT it
\* rejects leaves no mailbox selected (RFC 3501, 6.3.1).

MaxRetries == 2

MaxConns == 4

OpLen == 2

MaxCalls == 3

SharedCalls == 1

\* folder=None
NoFolder == <<>>

ConnFolders == {INBOX, DecodedFolder}

ClosedConn == [open |-> FALSE, selected |-> NoFolder]

\* __init__ of the manager.
NewManager == [imap |-> 0, connected |-> FALSE, current_folder |-> NoFolder, lock |-> 0]

NewServer == [conns |-> [i \in 1..MaxConns |-> ClosedConn], next |-> 1]

\* A caller outside any call.  imap is the connection execute holds, sel the
\* one _connect opened or select_folder uses, out the one being logged out;
\* attempts lists, per run of the operation, its connection and whether a
\* SELECT was sent before it; seen holds the mailbox selected when each
\* command of the operation was sent; left, the calls the caller may still
\* make.
IdleTask ==
    [pc |-> "idle", folder |-> NoFolder, attempt |-> 0, imap |-> 0, sel |-> 0,
     out |-> 0, where |-> "none", sent |-> 0, selected |-> FALSE, seen |-> {},
     attempts |-> <<>>, last_error |-> -1, outcome |-> "none", left |-> 0]

St(m, s, t) == [m |-> m, s |-> s, t |-> t, ok |-> TRUE]

\* An exception no except clause of the manager names leaves the call.
Raise(r) == [r EXCEPT !.t.pc = "idle", !.t.outcome = "raised_other"]

\* One command of the operation goes out on the connection execute holds.
SendCommand(r) ==
    IF r.t.imap = 0 THEN Raise(r)
    ELSE [r EXCEPT !.t.pc = "operating", !.t.sent = @ + 1,
                   !.t.seen = @ \cup {r.s.conns[r.t.imap].selected}]

\* return await operation(imap)
StartOperation(r) ==
    SendCommand([r EXCEPT !.t.attempts =
                     Append(@, [imap |-> r.t.imap, selected |-> r.t.selected])])

\* select_folder after its ensure_connected returned imap.
select_folder(r, imap) ==
    IF r.m.current_folder # r.t.folder
    THEN IF imap = 0 THEN Raise(r)
         ELSE [r EXCEPT !.t.pc = "selecting", !.t.sel = imap, !.t.selected = TRUE]
    ELSE StartOperation(r)

\* _connect up to its first await: the new connection replaces self._imap.
_connect(c, r, where) ==
    IF r.s.next > MaxConns THEN [r EXCEPT !.ok = FALSE]
    ELSE [r EXCEPT !.m.lock = c, !.m.imap = r.s.next,
                   !.s.conns[r.s.next].open = TRUE, !.s.next = @ + 1,
                   !.t.pc = "connecting", !.t.sel = r.s.next, !.t.where = where]

\* ensure_connected called from execute (where = "execute") or from
\* select_folder (where = "select"), and what execute does with its result
\* up to the next await.
RECURSIVE ensure_connected(_, _, _)
execute(c, r, where) ==
    IF where = "execute"
    THEN LET r1 == [r EXCEPT !.t.imap = r.m.imap]
         IN  IF r.t.folder # NoFolder THEN ensure_connected(c, r1, "select")
             ELSE StartOperation(r1)
    ELSE select_folder(r, r.m.imap)

ensure_connected(c, r, where) ==
    IF r.m.lock # 0 THEN [r EXCEPT !.t.pc = "wait_lock", !.t.where = where]
    ELSE IF ~r.m.connected \/ r.m.imap = 0 THEN _connect(c, r, where)
    ELSE execute(c, r, where)

NextAttempt(c, r) ==
    ensure_connected(c, [r EXCEPT !.t.attempt = @ + 1, !.t.sent = 0, !.t.imap = 0,
                                  !.t.selected = FALSE], "execute")

\* The except clause of execute_with_retry for a connection-type error,
\* with _disconnect up to its LOGOUT.
Retry_KeepsConnected(c, r) ==
    LET r1 == [r EXCEPT !.t.last_error = r.t.attempt]
    IN  IF r1.t.attempt < MaxRetries THEN NextAttempt(c, r1)
        ELSE [r1 EXCEPT !.t.pc = "idle", !.t.outcome = "raised_last"]

Retry(c, r) ==
    LET r1 == [r EXCEPT !.m.connected = FALSE, !.m.current_folder = NoFolder,
                        !.t.last_error = r.t.attempt]
    IN  IF r1.t.attempt < MaxRetries
        THEN IF r1.m.imap # 0
             THEN [r1 EXCEPT !.t.pc = "logging_out", !.t.out = r1.m.imap]
             ELSE NextAttempt(c, r1)
        ELSE [r1 EXCEPT !.t.pc = "idle", !.t.outcome = "raised_last"]

\* The server side of a failure: the connection is lost, or it stays open
\* and only the answer is (a timeout).
Lost(s, conn, drop) ==
    IF drop /\ conn # 0 THEN [s EXCEPT !.conns[conn].open = FALSE] ELSE s

At(c) == St(mgr, server, task[c])

Becomes(c, r) ==
    /\ r.ok
    /\ mgr' = r.m
    /\ server' = r.s
    /\ task' = [task EXCEPT ![c] = r.t]
    /\ UNCHANGED <<Core, RestButConn>>

InitConn(callers, calls) ==
    /\ InitCalculator
    /\ Quiet({"conn"})
    /\ mgr = NewManager
    /\ server = NewServer
    /\ task = [c \in callers |-> [IdleTask EXCEPT !.left = calls]]

\* execute_with_retry(operation, folder) is called.
ExecuteWithRetry(c, f) ==
    /\ task[c].pc = "idle"
    /\ task[c].left > 0
    /\ Becomes(c, ensure_connected(c, St(mgr, server,
                                         [IdleTask EXCEPT !.folder = f,
                                                          !.left = task[c].left - 1]),
                                   "execute"))

\* The lock is free again: the waiting caller enters ensure_connected.
LockAcquired(c) ==
    /\ task[c].pc = "wait_lock"
    /\ mgr.lock = 0
    /\ Becomes(c, ensure_connected(c, At(c), task[c].where))

\* _connect completes (greeting, LOGIN, ID), the lock is released and
\* ensure_connected returns self._imap.
Connected(c) ==
    /\ task[c].pc = "connecting"
    /\ IF mgr.imap = 0
       THEN Becomes(c, Raise([At(c) EXCEPT !.m.lock = 0]))
       ELSE /\ server.conns[mgr.imap].open
            /\ Becomes(c, execute(c, [At(c) EXCEPT !.m.connected = TRUE,
                                                   !.m.current_folder = NoFolder,
                                                   !.m.lock = 0],
                                  task[c].where))

\* _connect raises a connection-type error.
ConnectFails(c, drop) ==
    /\ task[c].pc = "connecting"
    /\ Becomes(c, Retry(c, [At(c) EXCEPT !.m.lock = 0,
                                         !.s = Lost(server, task[c].sel, drop)]))

\* SELECT answered OK.
SelectOk(c) ==
    /\ task[c].pc = "selecting"
    /\ server.conns[task[c].sel].open
    /\ Becomes(c, StartOperation(
           [At(c) EXCEPT !.s.conns[task[c].sel].selected = encode_imap_utf7(task[c].folder),
                         !.m.current_folder = task[c].folder]))

\* SELECT answered NO: RuntimeError.
SelectRejected(c) ==
    /\ task[c].pc = "selecting"
    /\ server.conns[task[c].sel].open
    /\ Becomes(c, Raise([At(c) EXCEPT !.s.conns[task[c].sel].selected = NoFolder]))

SelectFails(c, drop) ==
    /\ task[c].pc = "selecting"
    /\ Becomes(c, Retry(c, [At(c) EXCEPT !.s = Lost(server, task[c].sel, drop)]))

\* A command of the operation is answered and the next one goes out.
OpContinues(c) ==
    /\ task[c].pc = "operating"
    /\ task[c].sent < OpLen
    /\ server.conns[task[c].imap].open
    /\ Becomes(c, SendCommand(At(c)))

\* The operation returns its result.
OpReturns(c) ==
    /\ task[c].pc = "operating"
    /\ server.conns[task[c].imap].open
    /\ Becomes(c, [At(c) EXCEPT !.t.pc = "idle", !.t.outcome = "returned"])

OpFails(c, drop) ==
    /\ task[c].pc = "operating"
    /\ Becomes(c, Retry(c, [At(c) EXCEPT !.s = Lost(server, task[c].imap, drop)]))

\* The operation raises an exception that is not of a connection type.
OpRaises(c) ==
    /\ task[c].pc = "operating"
    /\ Becomes(c, Raise(At(c)))

\* _disconnect after its LOGOUT (answered, or failed on a connection that
\* is gone, which is logged), and the next attempt.
LoggedOut(c) ==
    /\ task[c].pc = "logging_out"
    /\ Becomes(c, NextAttempt(c, [At(c) EXCEPT !.s = Lost(server, task[c].out, TRUE),
                                               !.m.imap = 0,
                                               !.m.connected = FALSE,
                                               !.m.current_folder = NoFolder]))

\* What a caller does next when it does not wait for the lock.
Step(c, given) ==
    \/ \E f \in given : ExecuteWithRetry(c, f)
    \/ Connected(c)
    \/ \E drop \in BOOLEAN : ConnectFails(c, drop)
    \/ SelectOk(c)
    \/ SelectRejected(c)
    \/ \E drop \in BOOLEAN : SelectFails(c, drop)
    \/ OpContinues(c)
    \/ OpReturns(c)
    \/ \E drop \in BOOLEAN : OpFails(c, drop)
    \/ OpRaises(c)
    \/ LoggedOut(c)

\* One caller: the lock is free whenever it gets there.
OneCaller == {1}

InitManager == InitConn(OneCaller, MaxCalls)

NextManager == \E c \in OneCaller : Step(c, ConnFolders \cup {NoFolder})

SpecManager == InitManager /\ [][NextManager]_vars

\* Two callers sharing the manager, each with a folder of its own.
TwoCallers == {1, 2}

FolderOf(c) == IF c = 1 THEN INBOX ELSE DecodedFolder

InitShared == InitConn(TwoCallers, SharedCalls)

NextShared == \E c \in TwoCallers : Step(c, {FolderOf(c)}) \/ LockAcquired(c)

SpecShared == InitShared /\ [][NextShared]_vars

\* ------------------------------------------------------------ overlapping listings
\* get_emails_metadata called by two requests of one account: each call
\* reads the watermark, awaits the search above it, awaits the headers of
\* the new UIDs, then stores them and writes the watermark; the calls are
\* suspended only at the two awaits.

ListingCallers == {1, 2}

NoListingMade == [stage |-> "idle", mailbox |-> INBOX, watermark |-> 0, new_uids |-> <<>>]

ListingFrame ==
    UNCHANGED <<CoreButIndex, message_index, matching, folder_reference, recon,
                email_body, content, meta, call, mgr, server, task>>

InitListing ==
    /\ InitCalculator
    /\ Quiet({"listing"})
    /\ email_metadata = {}
    /\ folder_watermark = {}
    /\ listing = [c \in ListingCallers |-> NoListingMade]

\* 1. watermark = cache.get_watermark(account, mailbox), and the search is
\* sent.
ListCall(c, f) ==
    /\ listing[c].stage \in {"idle", "returned"}
    /\ listing' = [listing EXCEPT ![c] =
                      [stage |-> "search", mailbox |-> f,
                       watermark |-> get_watermark(folder_watermark, account, f),
                       new_uids |-> <<>>]]
    /\ UNCHANGED <<email_metadata, folder_watermark>>
    /\ ListingFrame

\* 2. new_uids = await get_uids_above_watermark(watermark, mailbox); without
\* new UIDs the call returns the cached page.
ListSearched(c) ==
    /\ listing[c].stage = "search"
    /\ LET new_uids == get_uids_above_watermark(listing[c].watermark, listing[c].mailbox)
       IN  listing' = [listing EXCEPT
                          ![c].new_uids = new_uids,
                          ![c].stage = IF new_uids = <<>> THEN "returned" ELSE "fetch"]
    /\ UNCHANGED <<email_metadata, folder_watermark>>
    /\ ListingFrame

\* 3.-5. the headers came back, except those of the UIDs in failing: they
\* are stored and the watermark is set to max(new_uids).
ListFetched(c, failing) ==
    /\ listing[c].stage = "fetch"
    /\ failing \subseteq Range(listing[c].new_uids)
    /\ LET new_metadata == fetch_metadata_for_uids(listing[c].new_uids, failing)
       IN  /\ email_metadata' =
                  IF new_metadata # <<>>
                  THEN store_metadata(email_metadata, account, listing[c].mailbox,
                                      new_metadata)
                  ELSE email_metadata
           /\ folder_watermark' = set_watermark(folder_watermark, account,
                                                listing[c].mailbox,
                                                MaxOf(listing[c].new_uids))
    /\ listing' = [listing EXCEPT ![c].stage = "returned"]
    /\ ListingFrame

\* A message arrives in a folder, also while a call is suspended.
ListArrive(f) ==
    /\ Cardinality(mailbox) < MaxMsgs
    /\ mailbox' = mailbox \cup {[folder |-> f, uid |-> uidnext[f],
                                 internal_date |-> BaselineDate]}
    /\ uidnext' = [uidnext EXCEPT ![f] = @ + 1]
    /\ UNCHANGED <<last_op, codec, message_index, sync_state, synced, sessions, syncs,
                   pc, req, since_date, start_web_id, folders, all_messages, before,
                   ret, last_pass, Rest>>

NextListing ==
    \/ \E c \in ListingCallers, f \in Folders : ListCall(c, f)
    \/ \E c \in ListingCallers : ListSearched(c)
    \/ \E c \in ListingCallers, failing \in SUBSET MetaUids : ListFetched(c, failing)
    \/ \E f \in Folders : ListArrive(f)

SpecListing == InitListing /\ [][NextListing]_vars

\* ------------------------------------------------------------ cache invalidation
\* The six tables of the cache under the two operations that remove rows:
\* the handler's delete_emails (classic.py) and clear_account_cache
\* (cache.py).  Rows come into the tables as the reading and the link
\* calculation of either account write them.

\* Email ids as the tools pass them: decimal text, "1" and "2".
IdTexts == {<<49>>, <<50>>}

\* email_ids of a delete_emails request: no id twice.
DeleteIds ==
    {ids \in UNION {[1..n -> IdTexts] : n \in 1..2} :
        \A i, j \in 1..Len(ids) : ids[i] = ids[j] => i = j}

\* int(uid) of decimal text
RECURSIVE IntOf(_)
IntOf(text) ==
    IF text = <<>> THEN 0
    ELSE 10 * IntOf(SubSeq(text, 1, Len(text) - 1)) + (text[Len(text)] - 48)

\* for uid in deleted_ids: cache.delete_email(account, mailbox, int(uid))
RECURSIVE Invalidate(_, _, _)
Invalidate(s, folder, deleted_ids) ==
    IF deleted_ids = <<>> THEN s
    ELSE Invalidate(delete_email(s, account, folder, IntOf(Head(deleted_ids))),
                    folder, Tail(deleted_ids))

\* call holds the operation in progress or the one that has just returned;
\* a write by another caller leaves a call in progress as it is.
Over(c) == IF c.stage = "deleting" THEN c ELSE [stage |-> "idle"]

CacheFrame ==
    UNCHANGED <<mailbox, uidnext, synced, sessions, syncs, pc, req, since_date,
                start_web_id, folders, all_messages, before, ret, last_pass, last_op,
                codec, matching, recon, content, meta, mgr, server, task, listing>>

InitCache ==
    /\ InitCalculator
    /\ Quiet({"cache", "call"})
    /\ email_metadata = {}
    /\ email_body = {}
    /\ folder_reference = {}
    /\ folder_watermark = {}
    /\ call = [stage |-> "idle"]

\* get_emails_content caches the body and the headers of a message.
CacheRead(k) ==
    /\ email_body' = store_body(email_body, k.account, k.folder, k.uid, ServerBody)
    /\ email_metadata' = store_metadata(email_metadata, k.account, k.folder,
                             <<[uid |-> k.uid, subject |-> ServerSubject]>>)
    /\ call' = Over(call)
    /\ UNCHANGED <<message_index, sync_state, folder_reference, folder_watermark>>
    /\ CacheFrame

\* A sync writes the id of a message to the index.
CacheIndexed(k) ==
    /\ message_index' = bulk_insert_messages(message_index, k.account,
                            <<[folder |-> k.folder, uid |-> k.uid,
                               internal_date |-> BaselineDate,
                               web_id |-> BaselineWebId + k.uid]>>)
    /\ call' = Over(call)
    /\ UNCHANGED <<email_metadata, email_body, sync_state, folder_reference,
                   folder_watermark>>
    /\ CacheFrame

\* The per-account and per-folder rows of an account are written: the sync
\* checkpoint, the reference and the watermark of INBOX.
CacheCheckpoints(a) ==
    /\ sync_state' = update_sync_state(sync_state, a, BaselineDate, BaselineWebId + 1)
    /\ folder_reference' = set_folder_reference(folder_reference, a, INBOX, 1,
                                                BaselineWebId + 1)
    /\ folder_watermark' = set_watermark(folder_watermark, a, INBOX, 1)
    /\ call' = Over(call)
    /\ UNCHANGED <<email_metadata, email_body, message_index>>
    /\ CacheFrame

\* The handler's delete_emails(email_ids, mailbox) up to the answer of the
\* client.
DeleteCall(email_ids, f) ==
    /\ call.stage # "deleting"
    /\ call' = [stage |-> "deleting", email_ids |-> email_ids, mailbox |-> f]
    /\ UNCHANGED <<email_metadata, email_body, message_index, sync_state,
                   folder_reference, folder_watermark>>
    /\ CacheFrame

\* The client answers (deleted_ids, failed_ids): an id whose STORE raised is
\* failed, the others are deleted; then the cache rows of the deleted ids
\* are removed.
DeleteEmails(failing) ==
    /\ call.stage = "deleting"
    /\ LET deleted_ids == SelectSeq(call.email_ids, LAMBDA id : id \notin failing)
           failed_ids == SelectSeq(call.email_ids, LAMBDA id : id \in failing)
           s == Invalidate(Caches, call.mailbox, deleted_ids)
       IN  /\ email_metadata' = s.metadata
           /\ email_body' = s.body
           /\ message_index' = s.index
           /\ call' = [stage |-> "deleted", email_ids |-> call.email_ids,
                       mailbox |-> call.mailbox, deleted_ids |-> deleted_ids,
                       failed_ids |-> failed_ids]
    /\ UNCHANGED <<sync_state, folder_reference, folder_watermark>>
    /\ CacheFrame

\* execute_with_retry gave up (EXPUNGE or the connection failed on every
\* attempt): the handler raises before it touches the cache.
DeleteRaises ==
    /\ call.stage = "deleting"
    /\ call' = [stage |-> "raised", email_ids |-> call.email_ids,
                mailbox |-> call.mailbox]
    /\ UNCHANGED <<email_metadata, email_body, message_index, sync_state,
                   folder_reference, folder_watermark>>
    /\ CacheFrame

\* clear_account_cache(a)
ClearAccountCache(a) ==
    /\ call.stage # "deleting"
    /\ message_index' = clear_account_cache(Store, a).index
    /\ sync_state' = clear_account_cache(Store, a).state
    /\ call' = [stage |-> "cleared", account |-> a]
    /\ UNCHANGED <<email_metadata, email_body, folder_reference, folder_watermark>>
    /\ CacheFrame

NextCache ==
    \/ \E k \in CacheKeys : CacheRead(k)
    \/ \E k \in CacheKeys : CacheIndexed(k)
    \/ \E a \in Accounts : CacheCheckpoints(a)
    \/ \E email_ids \in DeleteIds, f \in Folders : DeleteCall(email_ids, f)
    \/ \E failing \in SUBSET IdTexts : DeleteEmails(failing)
    \/ DeleteRaises
    \/ \E a \in Accounts : ClearAccountCache(a)

SpecCache == InitCache /\ [][NextCache]_vars

\* ------------------------------------------------------------ properties
\* The position (from 0) a fetched message takes when the batch is put in
\* the order of its internal_date field, messages with equal dates keeping
\* their fetch order.
Rank(fetched, i) ==
    Cardinality({j \in 1..Len(fetched) :
        \/ SortKeyLess(fetched[j], fetched[i])
        \/ (fetched[j].internal_date = fetched[i].internal_date /\ j < i)})

HasBaseline(fetched) == \E i \in 1..Len(fetched) : KeyOf(fetched[i]) = BaselineKey

BaselineIn(fetched) == CHOOSE i \in 1..Len(fetched) : KeyOf(fetched[i]) = BaselineKey

StoredId(m) == get_web_id(message_index, account, m.folder, m.uid)

\* C1: when the batch of a pass holds the baseline message, the message at
\* sorted position i is stored with id baseline_id + (i - p_b), p_b being
\* the baseline's sorted position; the baseline itself keeps baseline_id.
C1_BaselineRelativeIds ==
    \A p \in last_pass :
        (p.outcome = "committed" /\ HasBaseline(p.fetched)) =>
            \A i \in 1..Len(p.fetched) :
                StoredId(p.fetched[i]) =
                    {BaselineWebId + (Rank(p.fetched, i)
                                      - Rank(p.fetched, BaselineIn(p.fetched)))}

\* A pass has just stored a message directly before the baseline and one
\* directly after it.
C1_Witness ==
    \E p \in last_pass :
        /\ p.outcome = "committed"
        /\ HasBaseline(p.fetched)
        /\ \E i, j \in 1..Len(p.fetched) :
              /\ StoredId(p.fetched[i]) = {BaselineWebId - 1}
              /\ StoredId(p.fetched[j]) = {BaselineWebId + 1}

\* C3: when the batch of a pass does not hold the baseline message, the k-th
\* message in sorted order is stored with id start + k, start being the
\* checkpoint's max id, or the baseline id when there is no checkpoint.
C3_CountingFromStart ==
    \A p \in last_pass :
        (p.outcome = "committed" /\ ~HasBaseline(p.fetched)) =>
            LET start == IF p.before.state # {}
                         THEN ValueOf(get_max_web_id(p.before.state, account))
                         ELSE BaselineWebId
            IN  \A i \in 1..Len(p.fetched) :
                    StoredId(p.fetched[i]) = {start + Rank(p.fetched, i) + 1}

\* An incremental pass (a checkpoint existed) has just stored two messages
\* of a batch without the baseline.
C3_Witness ==
    \E p \in last_pass :
        /\ p.outcome = "committed"
        /\ ~HasBaseline(p.fetched)
        /\ p.before.state # {}
        /\ Len(p.fetched) >= 2

\* C2: an incremental pass (a checkpoint existed and the baseline is not in
\* the batch) leaves the id of every entry an earlier pass wrote unchanged.
C2_EarlierEntriesKeepIds ==
    \A p \in last_pass :
        (p.outcome = "committed" /\ ~FirstSync(p.before.state)
                                 /\ ~HasBaseline(p.fetched)) =>
            \A r \in p.before.index :
                get_web_id(message_index, account, r.folder, r.uid) = {r.mid}

\* C4: the ids a pass assigns follow the instants of the internal dates,
\* whatever offset each date carries, and are pairwise distinct.
C4_IdsFollowInstants ==
    \A p \in last_pass :
        p.outcome = "committed" =>
            \A i, j \in 1..Len(p.fetched) :
                /\ Instant(p.fetched[i].internal_date) < Instant(p.fetched[j].internal_date)
                      => ValueOf(StoredId(p.fetched[i])) < ValueOf(StoredId(p.fetched[j]))
                /\ i # j => StoredId(p.fetched[i]) # StoredId(p.fetched[j])

\* C5: after a pass that stored messages the checkpoint is the single row
\* (internal date, id) of the chronologically newest message of the pass.
C5_CheckpointIsNewest ==
    \A p \in last_pass :
        p.outcome = "committed" =>
            \E i \in 1..Len(p.fetched) :
                /\ \A j \in 1..Len(p.fetched) :
                      Instant(p.fetched[j].internal_date) <= Instant(p.fetched[i].internal_date)
                /\ sync_state = {[account |-> account,
                                  last_sync_date |-> p.fetched[i].internal_date,
                                  max_mid |-> ValueOf(StoredId(p.fetched[i]))]}

\* C6: a pass that ends with the transport error leaves the store exactly as
\* it was when the pass started.
C6_FailedPassLeavesStore ==
    \A p \in last_pass :
        p.outcome = "raised" =>
            /\ message_index = p.before.index
            /\ sync_state = p.before.state

\* C7: however a pass ends, it has written its index entries and its
\* checkpoint together or neither of them.
C7_AllOrNothing ==
    \A p \in last_pass : p.wrote_entries = p.wrote_checkpoint

\* C8: one calculator instance starts the sync at most once, whatever the
\* outcome of the first sync was.
C8_SyncAtMostOnce == syncs <= 1

\* C9: at most one sync pass is in flight at any time.
C9_OnePassInFlight == Cardinality({c \in Callers : pc[c] # "idle"}) <= 1

\* C10: get_web_url never raises: every call ends with a URL.
C10_NeverRaises == \A r \in ret : r.kind = "url"

\* A call by c for the (folder, uid) k begins in this step: it returns in
\* the step, or it is suspended in its pass after it.
Begins(c, k) ==
    /\ pc[c] = "idle"
    /\ \/ pc'[c] # "idle" /\ req'[c] = k
       \/ \E r \in ret' : r.caller = c /\ r.folder = k[1] /\ r.uid = k[2]

\* C11: a call for a (folder, uid) the store holds an entry for returns, in
\* the step it begins, the URL built from the cached id and the folder asked
\* for; it starts no pass (no call is suspended on the server, no sync is
\* counted) and leaves the index and the checkpoint as they were.
C11_HitReturnsAtOnce ==
    [][\A c \in Callers, k \in Requests :
          (Begins(c, k) /\ get_web_id(message_index, account, k[1], k[2]) # {}) =>
              /\ ret' = Returned(c, k[1], k[2],
                     _format_url(ValueOf(get_web_id(message_index, account, k[1], k[2])),
                                 k[1]))
              /\ pc' = pc
              /\ syncs' = syncs
              /\ message_index' = message_index
              /\ sync_state' = sync_state]_vars

\* A call has just returned the URL of a cached entry of the second folder,
\* without a pass.
C11_Witness ==
    /\ last_pass = {}
    /\ \E r \in ret :
          /\ r.kind = "url"
          /\ r.folder = DecodedFolder
          /\ r.url = [folder_id |-> 2, thread |-> BaselineWebId + 1]

\* C12: the call that runs the pass returns a URL when the pass is over: the
\* URL of the entry for the (folder, uid) asked for when the store now holds
\* one, the URL of the baseline id and baseline folder otherwise.
C12_MissSyncsThenLooksUp ==
    \A p \in last_pass :
        \E r \in ret :
            /\ r.caller = p.caller
            /\ r.kind = "url"
            /\ LET web_id == get_web_id(message_index, account, r.folder, r.uid)
               IN  r.url = IF web_id # {}
                           THEN _format_url(ValueOf(web_id), r.folder)
                           ELSE _format_url(BaselineWebId, BaselineFolder)

\* C13: a call that returns a URL returns the URL of the entry stored for
\* the decoded name of the folder it was asked for, whenever the store holds
\* such an entry, be the folder passed by wire name or by decoded name.
C13_FolderFoundByEitherName ==
    \A r \in ret :
        r.kind = "url" =>
            LET web_id == get_web_id(message_index, account,
                                     decode_imap_utf7(r.folder), r.uid)
            IN  web_id # {} => r.url = _format_url(ValueOf(web_id), r.folder)

\* C14: whatever folder cannot be selected and whatever UIDs fail, the step
\* that fetches a folder keeps every message fetched so far and every
\* matching message of the folder that did not fail; after the last folder
\* all of them are in the index with an id.
C14_PartialFailureTolerated ==
    [][\A c \in Callers, selectable \in BOOLEAN, failing \in SUBSET mailbox :
          FetchFolder(c, selectable, failing) =>
              LET kept == IF selectable
                          THEN {Fetched(m) : m \in Matching(Head(folders[c]),
                                                  since_date[c]) \ failing}
                          ELSE {}
                  due == Range(all_messages[c]) \cup kept
              IN  IF Len(folders[c]) = 1
                  THEN \A m \in due :
                           get_web_id(message_index', account, m.folder, m.uid) # {}
                  ELSE due \subseteq Range(all_messages'[c])]_vars

\* A first pass has just committed messages although a message of INBOX that
\* the search matched is not among them.
C14_Witness ==
    \E p \in last_pass :
        /\ p.outcome = "committed"
        /\ p.before.state = {}
        /\ \E m \in mailbox :
              /\ m.folder = INBOX
              /\ DayOf(m.internal_date) >= DayOf(BaselineDate)
              /\ Fetched(m) \notin Range(p.fetched)

\* The rows of an account.
RowsOfAccount(index, acct) == {r \in index : r.account = acct}

\* C15: the index never holds two rows with one (account, folder, uid) nor
\* the checkpoints two rows of one account; after a batch insert the lookup
\* of each key of the batch gives the id of the last message written to that
\* key; and writing the same batch, or the same checkpoint, once more
\* leaves the store as it is.
C15_IdempotentUpsert ==
    /\ [](/\ \A r1, r2 \in message_index :
                (r1.account = r2.account /\ KeyOf(r1) = KeyOf(r2)) => r1 = r2
          /\ \A s1, s2 \in sync_state : s1.account = s2.account => s1 = s2)
    /\ [][\A a \in Accounts, messages \in Batches :
             BulkInsert(a, messages) =>
                 /\ \A k \in 1..Len(messages) :
                        (\A j \in (k + 1)..Len(messages) :
                             KeyOf(messages[j]) # KeyOf(messages[k])) =>
                            get_mid(message_index', a, messages[k].folder,
                                    messages[k].uid) = {messages[k].mid}
                 /\ bulk_insert_messages(message_index', a, messages) = message_index']_vars
    /\ [][\A a \in Accounts, d \in StoreDates, i \in StoreIds :
             UpdateSyncState(a, d, i) =>
                 /\ get_last_sync_date(sync_state', a) = {d}
                 /\ get_max_mid(sync_state', a) = {i}
                 /\ update_sync_state(sync_state', a, d, i) = sync_state']_vars

\* A batch of two messages has just been written and the account holds one
\* row: both went to the same key.
C15_Witness ==
    \E o \in last_op :
        /\ o.op = "bulk_insert_messages"
        /\ o.result = 2
        /\ Cardinality(RowsOfAccount(message_index, o.account)) = 1

\* C16: a store operation for one account leaves what every query for any
\* other account returns as it was: the id lookup and the pair lookup of
\* every key, the ordered scan, and both checkpoint fields.
C16_AccountsIsolated ==
    [][\A o \in last_op' : \A b \in Accounts \ {o.account} :
          /\ \A u \in StoreUids :
                /\ get_mid(message_index', b, INBOX, u) = get_mid(message_index, b, INBOX, u)
                /\ get_message_ids(message_index', b, INBOX, u) =
                       get_message_ids(message_index, b, INBOX, u)
          /\ get_all_cached_messages(message_index', b) =
                 get_all_cached_messages(message_index, b)
          /\ get_last_sync_date(sync_state', b) = get_last_sync_date(sync_state, b)
          /\ get_max_mid(sync_state', b) = get_max_mid(sync_state, b)]_vars

\* A prune for one account has just deleted a row while another account
\* keeps a row of the same folder, UID and date.
C16_Witness ==
    \E o \in last_op :
        /\ o.op = "prune_old_messages"
        /\ o.result >= 1
        /\ \E r \in message_index :
              /\ r.account # o.account
              /\ TextBefore(r.internal_date, Cutoff(o.now, o.days))

\* C17: clear_account_cache(a) leaves no row of a in the index and no
\* checkpoint of a (every lookup for a misses), leaves the rows and the
\* checkpoints of the other accounts as they were, and changes nothing when
\* a has no data.
C17_ClearRemovesOneAccount ==
    [][\A a \in Accounts :
          ClearAccount(a) =>
              /\ RowsOfAccount(message_index', a) = {}
              /\ \A u \in StoreUids : get_mid(message_index', a, INBOX, u) = {}
              /\ get_last_sync_date(sync_state', a) = {}
              /\ get_max_mid(sync_state', a) = {}
              /\ \A b \in Accounts \ {a} :
                    /\ RowsOfAccount(message_index', b) = RowsOfAccount(message_index, b)
                    /\ {x \in sync_state' : x.account = b} =
                           {x \in sync_state : x.account = b}
              /\ (RowsOfAccount(message_index, a) = {}
                      /\ get_max_mid(sync_state, a) = {}) =>
                     (message_index' = message_index /\ sync_state' = sync_state)]_vars

\* An account that had data has just been cleared while another account
\* holds rows and a checkpoint.
C17_Witness ==
    \E o \in last_op :
        /\ o.op = "clear_account_cache"
        /\ o.removed
        /\ \E b \in Accounts \ {o.account} :
              /\ RowsOfAccount(message_index, b) # {}
              /\ get_max_mid(sync_state, b) # {}

\* C18: prune_old_messages(a, days) deletes exactly the rows of a whose
\* internal date is an earlier instant than the clock's now minus days,
\* returns their number, and leaves the checkpoints as they were.
C18_PruneByAge ==
    [][\A a \in Accounts, now \in StoreNows, zone \in Offsets, days \in StoreDays :
          Prune(a, now, zone, days) =>
              LET old == {r \in RowsOfAccount(message_index, a) :
                             Instant(r.internal_date) <= Cutoff(now, days) - zone}
              IN  /\ message_index' = message_index \ old
                  /\ \A o \in last_op' : o.result = Cardinality(old)
                  /\ sync_state' = sync_state]_vars

\* C19: get_message_ids gives nothing for a key without a row, and for a
\* key with a row the pair of its id and its thread id, the id standing in
\* for a thread id that was not stored.
C19_LookupIdsWithStandIn ==
    \A o \in last_op :
        o.op = "get_message_ids" =>
            LET rows == RowsOf(message_index, o.account, o.folder, o.uid)
            IN  IF rows = {} THEN o.result = {}
                ELSE \A r \in rows :
                         o.result = {<<r.mid, IF r.tid # {} THEN ValueOf(r.tid)
                                              ELSE r.mid>>}

\* The lookup of a row stored without a thread id has just returned its id
\* twice.
C19_Witness ==
    \E o \in last_op :
        /\ o.op = "get_message_ids"
        /\ o.result = {<<1, 1>>}

\* C20: a folder name that has been encoded and decoded again is the name
\* that was given, whatever its characters.
C20_DecodeEncodeRoundTrip ==
    codec.stage = "decoded" => codec.back = codec.given

\* The sections of a wire name: each "&" that is not the escape "&-" and not
\* inside an earlier section, with the position of the "-" that ends it
\* (0 when there is none).
RECURSIVE Sections(_, _)
Sections(s, i) ==
    IF i > Len(s) THEN {}
    ELSE IF s[i] # Amp THEN Sections(s, i + 1)
    ELSE IF i + 1 <= Len(s) /\ s[i + 1] = Dash THEN Sections(s, i + 2)
    ELSE LET j == Find(s, Dash, i + 1)
         IN  IF j = 0 THEN {[from |-> i, to |-> 0]}
             ELSE {[from |-> i, to |-> j]} \cup Sections(s, j + 1)

Payload(s, sec) == SubSeq(s, sec.from + 1, sec.to - 1)

\* The characters of the modified base64 alphabet: A-Z a-z 0-9 + ,
IsModifiedBase64(c) == c = Comma \/ (IsBase64(c) /\ c # Slash)

WellFormed(s, sec) ==
    /\ sec.to # 0
    /\ Payload(s, sec) # <<>>
    /\ \A c \in Chars(Payload(s, sec)) : IsModifiedBase64(c)
    /\ DecodePayload(Replace(Payload(s, sec), Comma, Slash)) # {}

ValidWire(x) ==
    /\ \A c \in Chars(x) : Printable(c)
    /\ \A sec \in Sections(x, 1) : WellFormed(x, sec)

\* C21: a valid wire name that has been decoded and encoded again is the
\* wire name that was given.
C21_EncodeDecodeRoundTrip ==
    (codec.stage = "written" /\ ValidWire(codec.wire)) => codec.back = codec.wire

\* C22: decoding any wire name gives a name.  A section with no closing "-"
\* is kept as it is up to the end of the string, after the converted part
\* before it; a section whose payload cannot be decoded is kept as it is,
\* between the converted parts before and after it.
C22_DecodeToleratesMalformed ==
    codec.stage = "read" =>
        LET x == codec.wire
        IN  /\ codec.given \in Seq(Nat)
            /\ \A sec \in Sections(x, 1) :
                   LET pre == decode_imap_utf7(SubSeq(x, 1, sec.from - 1))
                   IN  /\ sec.to = 0 =>
                           codec.given = pre \o SubSeq(x, sec.from, Len(x))
                       /\ (sec.to # 0
                           /\ DecodePayload(Replace(Payload(x, sec), Comma, Slash)) = {}) =>
                           codec.given = pre \o SubSeq(x, sec.from, sec.to)
                                         \o decode_imap_utf7(SubSeq(x, sec.to + 1, Len(x)))

\* An undecodable section with converted parts on both sides: "&-&A-" read
\* as "&&A-", and "&A-&-" read as "&A-&".
C22_Witness ==
    /\ codec.stage = "read"
    /\ \E sec \in Sections(codec.wire, 1) :
           /\ sec.to # 0
           /\ DecodePayload(Replace(Payload(codec.wire, sec), Comma, Slash)) = {}
           /\ \/ sec.from > 1
              \/ sec.to < Len(codec.wire)
    /\ codec.given # codec.wire

\* The normalized subject as the claim words it: lowercased, trimmed, the
\* leading Re:/Fwd: prefixes removed, trimmed.
Normalized(subject) == Strip(RemovePrefixes(Strip(Lower(subject))))

SameSubject(web_messages, imap_msg) ==
    {k \in 1..Len(web_messages) :
        Normalized(web_messages[k].subject) = Normalized(imap_msg.subject)}

MatchOf(imap_msg) == {r \in matching.uid_to_ids : r.uid = imap_msg.uid}

\* C23: for each IMAP message, one provider candidate with its normalized
\* subject is its match; of several candidates the match is one closest in
\* time to the message's date, provided that is under two minutes away; with
\* no candidate, or with several and none under two minutes away (or no date
\* to compare with), there is no match.
C23_MatchBySubjectThenDate ==
    matching.stage = "returned" =>
        \A i \in 1..Len(matching.imap_messages) :
            LET imap_msg == matching.imap_messages[i]
                web == matching.web_messages
                same == SameSubject(web, imap_msg)
                near == {k \in same : imap_msg.date # NoDate
                                      /\ AbsDiff(web[k].timestamp, imap_msg.date) < TwoMinutes}
            IN  /\ Cardinality(MatchOf(imap_msg)) <= 1
                /\ Cardinality(same) = 0 => MatchOf(imap_msg) = {}
                /\ Cardinality(same) = 1 =>
                       \E k \in same : \E r \in MatchOf(imap_msg) : r.mid = web[k].mid
                /\ (Cardinality(same) > 1 /\ near = {}) => MatchOf(imap_msg) = {}
                /\ (Cardinality(same) > 1 /\ near # {}) =>
                       \E k \in near :
                           /\ \A j \in same :
                                  AbsDiff(web[k].timestamp, imap_msg.date)
                                      <= AbsDiff(web[j].timestamp, imap_msg.date)
                           /\ \E r \in MatchOf(imap_msg) : r.mid = web[k].mid

\* A message with two candidates of its subject is matched to the second of
\* them: the date, not the list order, decided.
C23_Witness ==
    /\ matching.stage = "returned"
    /\ \E i \in 1..Len(matching.imap_messages) :
           LET imap_msg == matching.imap_messages[i]
           IN  /\ Cardinality(SameSubject(matching.web_messages, imap_msg)) > 1
               /\ \E r \in MatchOf(imap_msg) : r.mid = matching.web_messages[2].mid
    /\ Len(matching.web_messages) = 2

\* The step with which a reconcile call returns.
ReconcileReturns == recon.stage # "returned" /\ recon'.stage = "returned"

C25_ReconcileWritesMatches ==
    [][(ReconcileReturns /\ recon'.web_folders # <<>>)
       => LET matched == recon'.matched
          IN  /\ \A r \in matched :
                     get_message_ids(message_index', account, r.folder, r.uid)
                         = {<<r.mid, r.tid>>}
              /\ \A f \in {r.folder : r \in matched} :
                     \E r \in matched :
                         /\ r.folder = f
                         /\ \A o \in matched : o.folder = f => o.uid <= r.uid
                         /\ get_folder_reference(folder_reference', account, f)
                                = {<<r.uid, r.mid>>}
              /\ recon'.result = Cardinality(matched)]_vars

\* A call that matched messages in two folders, two of them in one folder,
\* and replaced an estimate the index held.
C25_Witness ==
    /\ recon.stage = "returned"
    /\ recon.web_folders # <<>>
    /\ Cardinality({r.folder : r \in recon.matched}) = 2
    /\ recon.result = 3
    /\ \E r \in recon.matched : \E row \in recon.before.index :
           /\ row.account = account /\ row.folder = r.folder /\ row.uid = r.uid
           /\ row.mid # r.mid
    /\ \A r \in recon.matched :
           get_mid(message_index, account, r.folder, r.uid) = {r.mid}

\* A step in which a call of get_emails_content returns.
ContentReturns == content' # content /\ content'.stage = "returned"

\* The ids of a returned call for which the batch gave None.
MissingIds(c) == Range(c.email_ids) \ (c.cached \cup c.fetched)

\* The rows of a table that belong to none of the messages ids of the
\* folder of the call.
RowsBut(table, c, ids) ==
    {x \in table : ~(x.account = account /\ x.folder = c.mailbox /\ x.uid \in ids)}

\* What a returned call tells of the ids the batch gave None for, and the
\* rows it leaves of them.
NotFoundReported(c) ==
    /\ \A i \in 1..Len(c.email_ids) :
           c.email_ids[i] \in MissingIds(c) =>
               c.emails[i] = [email_id |-> c.email_ids[i], status |-> "not_found"]
    /\ Range(c.failed_ids) = MissingIds(c)
    /\ \A id \in MissingIds(c) :
           /\ RowsOf(email_metadata', account, c.mailbox, id) = {}
           /\ RowsOf(email_body', account, c.mailbox, id) = {}
           /\ RowsOf(message_index', account, c.mailbox, id) = {}

\* C26 as stated: when the batch gave None for an id without a cached body,
\* the call returns with that id answered "not_found" and listed in
\* failed_ids, no row of (account, folder, uid) is left in the index, the
\* metadata or the bodies, and the rows of every other message are as they
\* were before the call returned.
C26_NotFoundCleansUp_AsStated ==
    [][ContentReturns =>
         /\ NotFoundReported(content')
         /\ \A id \in MissingIds(content') :
                /\ RowsBut(email_metadata', content', {id})
                       = RowsBut(email_metadata, content', {id})
                /\ RowsBut(email_body', content', {id})
                       = RowsBut(email_body, content', {id})
                /\ RowsBut(message_index', content', {id})
                       = RowsBut(message_index, content', {id})]_vars

\* C26, amended: when the batch gave None for ids without a cached body, the
\* call returns with each of them answered "not_found" and listed in
\* failed_ids and with no index, metadata or body row of theirs left; the
\* index rows of every other message are unchanged, and so are the metadata
\* and body rows of every message that is neither one of them nor a message
\* the same call fetched (whose body and metadata rows the call writes).
C26_NotFoundCleansUp ==
    [][ContentReturns =>
         LET c == content'
         IN  /\ NotFoundReported(c)
             /\ RowsBut(message_index', c, MissingIds(c))
                    = RowsBut(message_index, c, MissingIds(c))
             /\ RowsBut(email_metadata', c, MissingIds(c) \cup c.fetched)
                    = RowsBut(email_metadata, c, MissingIds(c) \cup c.fetched)
             /\ RowsBut(email_body', c, MissingIds(c) \cup c.fetched)
                    = RowsBut(email_body, c, MissingIds(c) \cup c.fetched)
             /\ \A id \in c.fetched :
                    /\ RowsOf(email_body', account, c.mailbox, id) # {}
                    /\ RowsOf(email_metadata', account, c.mailbox, id) # {}]_vars

\* A call for messages 1 and 2 of INBOX has returned: the batch gave None
\* for 1, whose index and metadata rows were deleted, and fetched 2; the
\* caches hold rows of UID 1 of the other folder and of the other account.
C26_Witness ==
    /\ content.stage = "returned"
    /\ content.mailbox = INBOX
    /\ content.failed_ids = <<1>>
    /\ content.fetched = {2}
    /\ content.removed = 2
    /\ RowsOf(message_index, account, WireFolder, 1) # {}
    /\ RowsOf(email_metadata, account, WireFolder, 1) # {}
    /\ RowsOf(email_body, "B", INBOX, 1) # {}

\* The account's mapping of folder names to numeric folder ids, as pairs.
ConfiguredIds == {<<INBOX, 1>>, <<DecodedFolder, 2>>}

\* C27: the URL for (id, folder) is https://{url_prefix}/touch/folder/{f}/
\* thread/{id}, f being the id configured for the decoded folder name and 1
\* for every name the mapping does not hold; the folder given by its wire
\* name gets the id configured for its decoded name.
C27_UrlOfFolder ==
    call.stage = "formatted" =>
        LET name == decode_imap_utf7(call.folder)
            mapped == {p \in ConfiguredIds : p[1] = name}
            f == IF mapped = {} THEN 1 ELSE (CHOOSE p \in mapped : TRUE)[2]
        IN  /\ call.url = <<"https://", UrlPrefix, "/touch/folder/", f,
                            "/thread/", call.web_id>>
            /\ call.folder = WireFolder => call.url[4] = 2
            /\ (\A p \in ConfiguredIds : p[1] # call.folder /\ p[1] # name)
                   => call.url[4] = 1

\* The URL of a message of the folder given by its wire name "&BBY-" has
\* been formatted.
C27_Witness ==
    /\ call.stage = "formatted"
    /\ call.folder = WireFolder
    /\ call.web_id = BaselineWebId + 123
    /\ call.url[4] = 2

\* The addresses of an optional list.
AddressesOf(opt) == IF opt = {} THEN {} ELSE Range(CHOOSE v \in opt : TRUE)

\* The headers of a message with one of the names.
HeadersNamed(msg, names) == SelectSeq(msg, LAMBDA h : h.name \in names)

\* C28: every to, cc and bcc address is in the SMTP delivery list; the
\* message sent, which is the one saved to the Sent folder, has no Bcc header
\* and no header that holds an address given as bcc only (Subject and From
\* hold the subject and the sender); and its To, Cc, Subject and From
\* headers are those of the same call with any other bcc list.
C28_BccDeliveredNotDisclosed ==
    call.stage = "sent" =>
        LET a == call.args
            hidden == AddressesOf(a.bcc) \ (Range(a.recipients) \cup AddressesOf(a.cc))
            visible == {"To", "Cc", "Subject", "From"}
        IN  /\ Range(a.recipients) \cup AddressesOf(a.cc) \cup AddressesOf(a.bcc)
                   \subseteq Range(call.all_recipients)
            /\ \A m \in {call.msg} \cup call.sent_folder :
                   /\ HeadersNamed(m, {"Bcc"}) = <<>>
                   /\ \A i \in 1..Len(m) :
                          m[i].name \notin {"Subject", "From"}
                              => Range(m[i].value) \cap hidden = {}
            /\ call.sent_folder \subseteq {call.msg}
            /\ \A b \in Optional(AddrLists), uuid \in Uuids, now \in SendTimes :
                   HeadersNamed(BuildMessage([a EXCEPT !.bcc = b], uuid, now), visible)
                       = HeadersNamed(call.msg, visible)

\* A message to a@x with b@x as its only bcc address has been sent and saved.
C28_Witness ==
    /\ call.stage = "sent"
    /\ call.args.recipients = <<"a@x">>
    /\ call.args.cc = {}
    /\ call.args.bcc = {<<"b@x">>}
    /\ call.all_recipients = <<"a@x", "b@x">>
    /\ call.sent_folder # {}

\* The criteria in the order the claim fixes, each with its keyword and the
\* argument it is given by.
CriteriaOrder ==
    <<[kw |-> KwBefore, arg |-> "before"], [kw |-> KwSince, arg |-> "since"],
      [kw |-> KwSubject, arg |-> "subject"], [kw |-> KwBody, arg |-> "body"],
      [kw |-> KwText, arg |-> "text"], [kw |-> KwFrom, arg |-> "from_address"],
      [kw |-> KwTo, arg |-> "to_address"]>>

\* The positions of CriteriaOrder whose argument is given: neither None nor
\* empty.
GivenCriteria(a) ==
    {j \in 1..Len(CriteriaOrder) :
        LET v == a[CriteriaOrder[j].arg]
        IN  v # {} /\ (j > 2 => v # {<<>>})}

\* The k-th smallest member of a set of numbers.
Nth(S, k) == CHOOSE x \in S : Cardinality({y \in S : y < x}) = k - 1

\* The month names of DD-Mon-YYYY.
EnglishMonths ==
    <<"Jan", "Feb", "Mar", "Apr", "May", "Jun",
      "Jul", "Aug", "Sep", "Oct", "Nov", "Dec">>

\* The code points of the twelve names.
MonthCodes(name) ==
    CASE name = "Jan" -> <<74, 97, 110>> [] name = "Feb" -> <<70, 101, 98>>
      [] name = "Mar" -> <<77, 97, 114>> [] name = "Apr" -> <<65, 112, 114>>
      [] name = "May" -> <<77, 97, 121>> [] name = "Jun" -> <<74, 117, 110>>
      [] name = "Jul" -> <<74, 117, 108>> [] name = "Aug" -> <<65, 117, 103>>
      [] name = "Sep" -> <<83, 101, 112>> [] name = "Oct" -> <<79, 99, 116>>
      [] name = "Nov" -> <<78, 111, 118>> [] name = "Dec" -> <<68, 101, 99>>

\* t is the date d written DD-Mon-YYYY: two digits of the day, "-", the
\* month's three letters with the first one a capital and the others small,
\* "-", four digits of the year.
IsDDMonYYYY(t, d) ==
    /\ Len(t) = 11
    /\ t[1] \in 48..57 /\ t[2] \in 48..57
    /\ (t[1] - 48) * 10 + (t[2] - 48) = d.day
    /\ t[3] = 45 /\ t[7] = 45
    /\ t[4] \in 65..90 /\ t[5] \in 97..122 /\ t[6] \in 97..122
    /\ <<t[4], t[5], t[6]>> = MonthCodes(EnglishMonths[d.month])
    /\ \A i \in 8..11 : t[i] \in 48..57
    /\ (t[8] - 48) * 1000 + (t[9] - 48) * 100 + (t[10] - 48) * 10 + (t[11] - 48)
           = d.year

\* C29: the result is ["ALL"] exactly when no criterion is given; otherwise
\* it holds, for the given criteria in the order BEFORE, SINCE, SUBJECT,
\* BODY, TEXT, FROM, TO, the keyword followed by its value and nothing else,
\* a date written DD-Mon-YYYY and a string as it was given.
C29_SearchCriteria ==
    call.stage = "built" =>
        LET a == call.args
            r == call.result
            given == GivenCriteria(a)
        IN  /\ (r = <<KwAll>>) <=> (given = {})
            /\ given # {} =>
                   /\ Len(r) = 2 * Cardinality(given)
                   /\ \A k \in 1..Cardinality(given) :
                          LET j == Nth(given, k)
                              v == CHOOSE x \in a[CriteriaOrder[j].arg] : TRUE
                          IN  /\ r[2 * k - 1] = CriteriaOrder[j].kw
                              /\ IF j <= 2 THEN IsDDMonYYYY(r[2 * k], v)
                                 ELSE r[2 * k] = v

\* The criteria of a search before 5 Jan 2024 for mail to "x", with an empty
\* subject, have been built: BEFORE 05-Jan-2024 TO x.
C29_Witness ==
    /\ call.stage = "built"
    /\ call.args.before = {[day |-> 5, month |-> 1, year |-> 2024]}
    /\ call.args.subject = {<<>>}
    /\ call.args.to_address = {<<120>>}
    /\ call.result = <<KwBefore, <<48, 53, 45, 74, 97, 110, 45, 50, 48, 50, 52>>,
                       KwTo, <<120>>>>

\* C30: every UID the server reported in an unfiltered get_emails_metadata
\* call for a folder and that is at or below the folder's stored watermark
\* has a cached metadata row, also when the header fetch of some UIDs failed
\* in the call that advanced the watermark.
C30_SyncLosesNoMessage ==
    \A f \in Folders : \A uid \in meta.reported[f] :
        uid <= get_watermark(folder_watermark, account, f)
            => RowsOf(email_metadata, account, f, uid) # {}

\* C31: execute_with_retry runs the operation at most max_retries + 1 times;
\* a connection-type failure resets the connected flag and the tracked
\* folder, and every run after the first is on a connection no earlier run
\* used, with a SELECT sent before it when a folder is given; when every
\* attempt failed the error raised is the one of the last attempt; an
\* exception of another type ends the call in the attempt it occurred in.
C31_RetryBounded ==
    LET t == task[1]
        n == Len(t.attempts)
    IN  /\ n <= MaxRetries + 1
        /\ t.attempt <= MaxRetries
        /\ \A k \in 2..n :
               /\ \A j \in 1..(k - 1) : t.attempts[j].imap # t.attempts[k].imap
               /\ t.folder # NoFolder => t.attempts[k].selected
        /\ t.pc = "logging_out" => ~mgr.connected /\ mgr.current_folder = NoFolder
        /\ t.outcome = "raised_last" =>
               /\ t.attempt = MaxRetries /\ t.last_error = MaxRetries
               /\ ~mgr.connected /\ mgr.current_folder = NoFolder
        /\ t.outcome = "raised_other" => t.pc = "idle" /\ t.last_error = t.attempt - 1

\* Three runs of an operation on a folder failed and the last error was raised.
C31_Witness ==
    /\ task[1].outcome = "raised_last"
    /\ Len(task[1].attempts) = MaxRetries + 1
    /\ task[1].folder = DecodedFolder

\* C32: with one caller, whenever the manager tracks folder F as current, it
\* is connected and F (in its wire form) is the mailbox selected on its
\* connection.
C32_TrackedFolderIsSelected ==
    mgr.current_folder # NoFolder =>
        /\ mgr.connected
        /\ mgr.imap # 0
        /\ server.conns[mgr.imap].open
        /\ server.conns[mgr.imap].selected = encode_imap_utf7(mgr.current_folder)

\* C33: with two callers, every command of an operation issued for folder F
\* is sent while F (in its wire form) is the mailbox selected on the
\* connection the command goes out on.
C33_CommandsSentInTheirFolder ==
    \A c \in TwoCallers :
        \A selected \in task[c].seen : selected = encode_imap_utf7(task[c].folder)

\* C34: the server never has two connections of the manager open at once.
C34_OneOpenConnection ==
    Cardinality({i \in 1..MaxConns : server.conns[i].open}) <= 1

\* C35: every folder reference a reconcile call wrote has its entry in the
\* message index: the index holds ref_mid for (folder, ref_uid).
C35_ReferenceHasItsEntry ==
    \A r \in folder_reference \ recon.before.refs :
        r.ref_mid \in get_mid(message_index, r.account, r.folder, r.ref_uid)

\* C36: one matching pass maps no two different IMAP UIDs to the same
\* provider message.
C36_MatchingInjective ==
    matching.stage = "returned" =>
        \A a, b \in matching.uid_to_ids : a.mid = b.mid => a.uid = b.uid

\* C37: within one account no two different (folder, UID) entries of the
\* message index carry the same resolved ID.
C37_ResolvedIdsUnique ==
    \A a, b \in message_index :
        a.account = b.account /\ a.mid = b.mid => a.folder = b.folder /\ a.uid = b.uid

\* C38: no step lowers the watermark of a folder.
C38_WatermarkNeverDecreases ==
    [][\A f \in Folders :
           get_watermark(folder_watermark, account, f)
               <= get_watermark(folder_watermark', account, f)]_vars

\* The rows of a table for the messages delete_emails reported as deleted.
RowsOfDeleted(table, folder, deleted_ids) ==
    {x \in table : /\ x.account = account
                   /\ x.folder = folder
                   /\ \E i \in 1..Len(deleted_ids) : x.uid = IntOf(deleted_ids[i])}

\* C39: when delete_emails returns, every id asked for is either in
\* deleted_ids or in failed_ids, and the metadata, body and index tables
\* have lost exactly the rows of the ids in deleted_ids: the rows of the
\* failed ids and of every other message are as they were.
C39_DeleteInvalidatesExactly ==
    [][(call.stage = "deleting" /\ call'.stage = "deleted") =>
          LET deleted == call'.deleted_ids
              failed == call'.failed_ids
          IN  /\ Range(deleted) \cup Range(failed) = Range(call.email_ids)
              /\ Range(deleted) \cap Range(failed) = {}
              /\ email_metadata' =
                     email_metadata \ RowsOfDeleted(email_metadata, call.mailbox, deleted)
              /\ email_body' =
                     email_body \ RowsOfDeleted(email_body, call.mailbox, deleted)
              /\ message_index' =
                     message_index \ RowsOfDeleted(message_index, call.mailbox, deleted)
              /\ RowsOfDeleted(email_metadata', call.mailbox, deleted) = {}
              /\ RowsOfDeleted(email_body', call.mailbox, deleted) = {}
              /\ RowsOfDeleted(message_index', call.mailbox, deleted) = {}]_vars

\* A call reported one id deleted and one failed; the rows of the deleted
\* one are gone, those of the failed one and of the other account's message
\* with the same folder and UID are still there.
C39_Witness ==
    /\ call.stage = "deleted"
    /\ call.mailbox = INBOX
    /\ call.deleted_ids = <<<<49>>>>
    /\ call.failed_ids = <<<<50>>>>
    /\ RowsOf(email_body, account, INBOX, 2) # {}
    /\ RowsOf(message_index, account, INBOX, 2) # {}
    /\ RowsOf(email_metadata, "B", INBOX, 1) # {}
    /\ RowsOf(email_metadata, account, WireFolder, 1) # {}

\* The tables of the cache that hold a row of an account.
TablesWithRowsOf(a) ==
    {t \in {"message_index", "sync_state", "folder_reference", "folder_watermark",
            "email_metadata", "email_body"} :
        LET table == CASE t = "message_index" -> message_index
                       [] t = "sync_state" -> sync_state
                       [] t = "folder_reference" -> folder_reference
                       [] t = "folder_watermark" -> folder_watermark
                       [] t = "email_metadata" -> email_metadata
                       [] t = "email_body" -> email_body
        IN  \E x \in table : x.account = a}

\* C40: when clear_account_cache(A) has returned, no table of the cache
\* holds a row of account A.
C40_ClearLeavesNoRow ==
    call.stage = "cleared" => TablesWithRowsOf(call.account) = {}

====
